---- MODULE Spec2Model ----
(***************************************************************************)
(* A model of django-imagefield's image processing core:                   *)
(*   - the crop-box geometry (backend_base.calculate_crop_box) and the     *)
(*     crop / thumbnail processors of the Pillow and the vips engine,      *)
(*   - the chain builder (processing_pillow.build_handler) and the         *)
(*     execution of a composed handler over the built-in processors,       *)
(*   - PillowBackend.save and the process-wide ImageFile.MAXBLOCK,         *)
(*   - the backend singleton (backends.get_backend, reset_backend),        *)
(*   - the format override specs (websafe.websafe, webp.webp),             *)
(*   - the thumbnail processors applied to one image,                      *)
(*   - verify_supported of both backends,                                  *)
(*   - one websafe or webp spec applied to several contexts, with lists    *)
(*     as objects.                                                         *)
(* Each part has its own variables and its own specification; the          *)
(* variables of the other parts keep their idle values.                    *)
(*                                                                         *)
(* Python floats are modelled by exact rational arithmetic on integers: a  *)
(* ratio n/d is the pair <<n, d>>, int(x) of a non-negative x is \div. For *)
(* the sizes and ratios within the model's bounds the floating-point       *)
(* results of the source are these exact values; where the thumbnail       *)
(* processors are given larger sizes, the double products that differ      *)
(* from the exact ones are listed (ShortProducts).                         *)
(***************************************************************************)
EXTENDS Integers, Sequences, FiniteSets, TLC

VARIABLES
    \* --- crop geometry: one application of a crop processor -------------
    image_size,   \* <<width, height>> of the image handed to the processor
    size,         \* the processor's argument (target width, target height)
    ppoi,         \* context.ppoi: <<x, y>>, each a ratio <<num, den>> in [0,1]
    g_backend,    \* the engine whose crop processor ran ("none" before)
    g_box,        \* the crop box the processor computed (NoBox before)
    g_result,     \* what the processor returned (NoResult before)
    \* --- chain builder: build_handler and one run of the composed handler
    registry,     \* the registry argument given to build_handler
    context,      \* the processing context: ppoi, extension, processors, save_kwargs
    image,        \* the image handed to the composed handler
    c_pc,         \* "init", "built", "calling", "running", "done", "failed", "raised"
    composed,     \* the composed handler: the closures from the outermost inwards
    error,        \* the exception build_handler or a processor raised
    stack,        \* the call stack of processor invocations, innermost last
    log,          \* observation log of everything the run did, in order
    calls,        \* calls[i]: how often closure i has called its downstream handler
    base_calls,   \* how often the base handler has been called
    result,       \* the image the composed handler returned
    \* --- PillowBackend.save and the process-wide ImageFile.MAXBLOCK -------
    MAXBLOCK,       \* ImageFile.MAXBLOCK, shared by every thread of the process
    entry_MAXBLOCK, \* the value MAXBLOCK had before the first save call
    s_pc,           \* s_pc[t]: where thread t is in save ("idle" outside of it)
    original,       \* original[t]: the local "original" of thread t's call
    s_loaded,       \* s_loaded[t]: the value read by "MAXBLOCK *= 16" before its store
    s_image,        \* s_image[t]: the image of thread t's call
    s_attempts,     \* s_attempts[t]: the encoder calls of thread t's call, in order
    fp,             \* fp[t]: what thread t's call has written to its sink
    s_outcome,      \* s_outcome[t]: how thread t's last call ended ("none" before)
    s_left,         \* s_left[t]: how many more calls thread t will make
    \* --- the backend singleton: get_backend and reset_backend ------------
    IMAGEFIELD_BACKEND, \* settings.IMAGEFIELD_BACKEND, a sequence of characters
    pyvips_importable,  \* whether importing imagefield.backend_vips succeeds
    backend_instance,   \* the module global _backend_instance (None before)
    created,            \* how many backend instances have been created so far
    b_pc,               \* b_pc[t]: where thread t is in get_backend
    backend_name,       \* backend_name[t]: the local "backend_name" of thread t
    b_events,           \* every finished operation and what it returned, in order
    b_left,             \* how many more operations may be started
    \* --- the format override specs: websafe and webp ---------------------
    w_processors,   \* the processors argument of websafe or webp
    w_extensions,   \* the extensions argument of websafe, given or omitted
    w_given,        \* the context as it is handed to the returned spec function
    w_context,      \* the context, which the spec function rewrites
    w_pc,           \* "init" before the spec function ran, then "websafe" or "webp"
    \* --- thumbnail: one application of a thumbnail processor ------------
    t_image_size, \* <<width, height>> of the image handed to the processor
    t_size,       \* the processor's argument (max width, max height)
    t_backend,    \* the engine whose thumbnail processor ran ("none" before)
    t_new,        \* the size the processor asked its engine for (NoSize before)
    t_result,     \* what the processor returned (NoResult before)
    \* --- verify_supported: one call on an opened image -------------------
    v_backend,    \* the backend whose verify_supported is called
    v_image,      \* the opened image: its detected format, mode and size
    v_failing,    \* the target formats whose encoder raises for this image
    v_pc,         \* "init", "encode", "returned" or "raised"
    v_thumb,      \* the small thumbnail (NoThumb before it is made)
    v_encoded,    \* the target formats encoded so far, in order
    \* --- one websafe or webp spec applied to several contexts ------------
    a_spec,       \* the spec: websafe or webp, and websafe's extensions argument
    a_heap,       \* the list objects: a_heap[id] is the content of list id
    a_original,   \* the content of the configured list at construction
    a_contexts,   \* the contexts the spec was applied to, in order
    a_left        \* how many more operations may happen

g_vars == <<image_size, size, ppoi, g_backend, g_box, g_result>>

c_vars == <<registry, context, image, c_pc, composed, error, stack, log, calls,
            base_calls, result>>

s_vars == <<MAXBLOCK, entry_MAXBLOCK, s_pc, original, s_loaded, s_image,
            s_attempts, fp, s_outcome, s_left>>

b_vars == <<IMAGEFIELD_BACKEND, pyvips_importable, backend_instance, created,
            b_pc, backend_name, b_events, b_left>>

w_vars == <<w_processors, w_extensions, w_given, w_context, w_pc>>

t_vars == <<t_image_size, t_size, t_backend, t_new, t_result>>

v_vars == <<v_backend, v_image, v_failing, v_pc, v_thumb, v_encoded>>

a_vars == <<a_spec, a_heap, a_original, a_contexts, a_left>>

vars == <<g_vars, c_vars, s_vars, b_vars, w_vars, t_vars, v_vars, a_vars>>

-----------------------------------------------------------------------------
(* Bounds of the model *)

MaxDim == 5      \* source images are 1..MaxDim pixels wide and high
MaxTarget == 3   \* target sizes are 1..MaxTarget
MaxSpecLen == 2  \* processor specification lists have at most MaxSpecLen entries
PpoiDen == 4     \* ppoi coordinates are k/PpoiDen, k in 0..PpoiDen
MaxBlock == 2    \* ImageFile.MAXBLOCK starts at 1..MaxBlock
MaxSaves == 3    \* one thread calls save at most MaxSaves times in a row
MaxOps == 4      \* at most MaxOps calls of get_backend, reset_backend and setting changes
MaxRequests == 3 \* one spec function is applied, or a context's list changed, MaxRequests times

-----------------------------------------------------------------------------
(* Arithmetic *)

Min(a, b) == IF a <= b THEN a ELSE b

Max(a, b) == IF a >= b THEN a ELSE b

\* int(n/d) for n >= 0, d > 0 (Python's int() truncates)
IntOf(n, d) == n \div d

\* int(n/d + 0.5) for n >= 0, d > 0
IntOfPlusHalf(n, d) == (2 * n + d) \div (2 * d)

\* the integer nearest to n/d, halves up (n >= 0, d > 0)
RoundHalfUp(n, d) == (2 * n + d) \div (2 * d)

\* the integers nearest to n/d: both neighbours when n/d is exactly a half
RoundAny(n, d) ==
    IF (2 * n) % (2 * d) = d THEN {n \div d, (n \div d) + 1}
    ELSE {RoundHalfUp(n, d)}

-----------------------------------------------------------------------------
(* backend_base.py: CropBox and calculate_crop_box *)

CropBox(left, top, width, height) ==
    [left |-> left, top |-> top, width |-> width, height |-> height]

\* calculate_crop_box with the upper clamp (the elif branches) left out
calculate_crop_box_no_upper_clamp(image_width, image_height, target_width, target_height, p) ==
    LET ppoi_x_axis == IntOf(image_width * p[1][1], p[1][2])
        ppoi_y_axis == IntOf(image_height * p[2][1], p[2][2])
        wider == image_width * target_height >= target_width * image_height
    IN  IF wider
        THEN LET crop_width == IntOfPlusHalf(target_width * image_height, target_height)
                 crop_left == ppoi_x_axis - (crop_width \div 2)
             IN  CropBox(IF crop_left < 0 THEN 0 ELSE crop_left,
                         0, crop_width, image_height)
        ELSE LET crop_height == IntOfPlusHalf(image_width * target_height, target_width)
                 crop_top == ppoi_y_axis - (crop_height \div 2)
             IN  CropBox(0, IF crop_top < 0 THEN 0 ELSE crop_top,
                         image_width, crop_height)

\* calculate_crop_box with the lower clamp (the if branches) left out
calculate_crop_box_no_lower_clamp(image_width, image_height, target_width, target_height, p) ==
    LET ppoi_x_axis == IntOf(image_width * p[1][1], p[1][2])
        ppoi_y_axis == IntOf(image_height * p[2][1], p[2][2])
        wider == image_width * target_height >= target_width * image_height
    IN  IF wider
        THEN LET crop_width == IntOfPlusHalf(target_width * image_height, target_height)
                 crop_left == ppoi_x_axis - (crop_width \div 2)
             IN  CropBox(IF crop_left + crop_width > image_width
                         THEN image_width - crop_width ELSE crop_left,
                         0, crop_width, image_height)
        ELSE LET crop_height == IntOfPlusHalf(image_width * target_height, target_width)
                 crop_top == ppoi_y_axis - (crop_height \div 2)
             IN  CropBox(0, IF crop_top + crop_height > image_height
                            THEN image_height - crop_height ELSE crop_top,
                         image_width, crop_height)

\* calculate_crop_box scaling the wrong side: the crop width from the image's
\* width, the crop height from the image's height
calculate_crop_box_wrong_side(image_width, image_height, target_width, target_height, p) ==
    LET ppoi_x_axis == IntOf(image_width * p[1][1], p[1][2])
        ppoi_y_axis == IntOf(image_height * p[2][1], p[2][2])
        wider == image_width * target_height >= target_width * image_height
    IN  IF wider
        THEN LET crop_width == Min(image_width,
                                   IntOfPlusHalf(target_width * image_width, target_height))
                 crop_left == ppoi_x_axis - (crop_width \div 2)
             IN  CropBox(IF crop_left < 0 THEN 0
                         ELSE IF crop_left + crop_width > image_width
                              THEN image_width - crop_width ELSE crop_left,
                         0, crop_width, image_height)
        ELSE LET crop_height == Min(image_height,
                                    IntOfPlusHalf(image_height * target_height, target_width))
                 crop_top == ppoi_y_axis - (crop_height \div 2)
             IN  CropBox(0, IF crop_top < 0 THEN 0
                            ELSE IF crop_top + crop_height > image_height
                                 THEN image_height - crop_height ELSE crop_top,
                         image_width, crop_height)

\* calculate_crop_box taking the centre pixel by rounding instead of int()
calculate_crop_box_round_centre(image_width, image_height, target_width, target_height, p) ==
    LET ppoi_x_axis == RoundHalfUp(image_width * p[1][1], p[1][2])
        ppoi_y_axis == RoundHalfUp(image_height * p[2][1], p[2][2])
        wider == image_width * target_height >= target_width * image_height
    IN  IF wider
        THEN LET crop_width == IntOfPlusHalf(target_width * image_height, target_height)
                 crop_left == ppoi_x_axis - (crop_width \div 2)
             IN  CropBox(IF crop_left < 0 THEN 0
                         ELSE IF crop_left + crop_width > image_width
                              THEN image_width - crop_width ELSE crop_left,
                         0, crop_width, image_height)
        ELSE LET crop_height == IntOfPlusHalf(image_width * target_height, target_width)
                 crop_top == ppoi_y_axis - (crop_height \div 2)
             IN  CropBox(0, IF crop_top < 0 THEN 0
                            ELSE IF crop_top + crop_height > image_height
                                 THEN image_height - crop_height ELSE crop_top,
                         image_width, crop_height)

calculate_crop_box(image_width, image_height, target_width, target_height, p) ==
    LET ppoi_x_axis == IntOf(image_width * p[1][1], p[1][2])
        ppoi_y_axis == IntOf(image_height * p[2][1], p[2][2])
        \* orig_aspect_ratio >= crop_aspect_ratio, cross-multiplied
        wider == image_width * target_height >= target_width * image_height
    IN  IF wider
        THEN LET crop_width == IntOfPlusHalf(target_width * image_height, target_height)
                 crop_height == image_height
                 crop_top == 0
                 crop_left == ppoi_x_axis - (crop_width \div 2)
             IN  CropBox(IF crop_left < 0 THEN 0
                         ELSE IF crop_left + crop_width > image_width
                              THEN image_width - crop_width
                              ELSE crop_left,
                         crop_top, crop_width, crop_height)
        ELSE LET crop_width == image_width
                 crop_height == IntOfPlusHalf(image_width * target_height, target_width)
                 crop_left == 0
                 crop_top == ppoi_y_axis - (crop_height \div 2)
             IN  CropBox(crop_left,
                         IF crop_top < 0 THEN 0
                         ELSE IF crop_top + crop_height > image_height
                              THEN image_height - crop_height
                              ELSE crop_top,
                         crop_width, crop_height)

-----------------------------------------------------------------------------
(* processing_vips.py: the crop rectangle the vips crop processor computes *)
(* inline (lines 138-169)                                                  *)

\* the inline computation taking int() of the scaled side without + 0.5
vips_crop_box_truncated(image_width, image_height, width, height, p) ==
    LET ppoi_x_axis == IntOf(image_width * p[1][1], p[1][2])
        ppoi_y_axis == IntOf(image_height * p[2][1], p[2][2])
        center_pixel_coord == <<ppoi_x_axis, ppoi_y_axis>>
        wider == image_width * height >= width * image_height
    IN  IF wider
        THEN LET orig_crop_width == IntOf(width * image_height, height)
                 orig_crop_height == image_height
                 crop_boundary_top == 0
                 crop_boundary_left == center_pixel_coord[1] - (orig_crop_width \div 2)
             IN  CropBox(IF crop_boundary_left < 0 THEN 0
                         ELSE IF crop_boundary_left + orig_crop_width > image_width
                              THEN image_width - orig_crop_width
                              ELSE crop_boundary_left,
                         crop_boundary_top, orig_crop_width, orig_crop_height)
        ELSE LET orig_crop_width == image_width
                 orig_crop_height == IntOf(image_width * height, width)
                 crop_boundary_left == 0
                 crop_boundary_top == center_pixel_coord[2] - (orig_crop_height \div 2)
             IN  CropBox(crop_boundary_left,
                         IF crop_boundary_top < 0 THEN 0
                         ELSE IF crop_boundary_top + orig_crop_height > image_height
                              THEN image_height - orig_crop_height
                              ELSE crop_boundary_top,
                         orig_crop_width, orig_crop_height)

vips_crop_box(image_width, image_height, width, height, p) ==
    LET ppoi_x_axis == IntOf(image_width * p[1][1], p[1][2])
        ppoi_y_axis == IntOf(image_height * p[2][1], p[2][2])
        center_pixel_coord == <<ppoi_x_axis, ppoi_y_axis>>
        wider == image_width * height >= width * image_height
    IN  IF wider
        THEN LET orig_crop_width == IntOfPlusHalf(width * image_height, height)
                 orig_crop_height == image_height
                 crop_boundary_top == 0
                 crop_boundary_left == center_pixel_coord[1] - (orig_crop_width \div 2)
             IN  CropBox(IF crop_boundary_left < 0 THEN 0
                         ELSE IF crop_boundary_left + orig_crop_width > image_width
                              THEN image_width - orig_crop_width
                              ELSE crop_boundary_left,
                         crop_boundary_top, orig_crop_width, orig_crop_height)
        ELSE LET orig_crop_width == image_width
                 orig_crop_height == IntOfPlusHalf(image_width * height, width)
                 crop_boundary_left == 0
                 crop_boundary_top == center_pixel_coord[2] - (orig_crop_height \div 2)
             IN  CropBox(crop_boundary_left,
                         IF crop_boundary_top < 0 THEN 0
                         ELSE IF crop_boundary_top + orig_crop_height > image_height
                              THEN image_height - orig_crop_height
                              ELSE crop_boundary_top,
                         orig_crop_width, orig_crop_height)

-----------------------------------------------------------------------------
(* The engines' resize calls, by the size of the image they return.        *)
(* A result is [ok |-> TRUE, size |-> <<w, h>>] or [ok |-> FALSE] when the *)
(* engine raises.                                                          *)

Returned(w, h) == [ok |-> TRUE, size |-> <<w, h>>]

Raised == [ok |-> FALSE]

\* PIL: image.crop(box).resize((width, height), LANCZOS). Image.resize returns
\* an image of exactly the requested size; resampling an empty region
\* (a box of zero width or height) may raise instead.
pillow_crop_resize(box, width, height) ==
    IF box.width = 0 \/ box.height = 0
    THEN {Raised, Returned(width, height)}
    ELSE {Returned(width, height)}

\* pyvips: image.thumbnail_image(width, height=height) scales the image by
\* one factor so that it fits inside width x height (it neither crops nor
\* stretches), each side rounded to the nearest pixel and at least 1; a
\* requested side below 1 is rejected.
vips_thumbnail_image(in_width, in_height, width, height) ==
    IF width < 1 \/ height < 1
    THEN {Raised}
    ELSE IF width * in_height <= height * in_width
         \* the width is the binding side: scale = width / in_width
         THEN {Returned(width, Max(1, h)) : h \in RoundAny(in_height * width, in_width)}
         ELSE {Returned(Max(1, w), height) : w \in RoundAny(in_width * height, in_height)}

\* pyvips: image.crop(l, t, w, h).thumbnail_image(width, height=height);
\* extract_area rejects an empty area.
vips_crop_thumbnail_image(box, width, height) ==
    IF box.width = 0 \/ box.height = 0
    THEN {Raised}
    ELSE vips_thumbnail_image(box.width, box.height, width, height)

RECURSIVE GCD(_, _)
GCD(a, b) == IF b = 0 THEN a ELSE GCD(b, a % b)

\* The double products that fall short: every (n, d, c) with n/d in lowest
\* terms, n < d <= 50 and c <= 50 for which the double (n / d) * c is below
\* the integer n * c / d, so that int() of it is one less. Every other
\* product with d, c <= 50, and every product whose d is a power of two,
\* truncates to the floor of the exact n * c / d.
ShortProducts ==
    { <<15, 22, 22>>, <<15, 22, 44>>, <<13, 23, 23>>, <<13, 23, 46>>,
      <<15, 26, 26>>, <<31, 39, 39>>, <<23, 43, 43>>, <<31, 43, 43>>,
      <<15, 44, 44>>, <<13, 45, 45>>, <<26, 45, 45>>, <<13, 46, 46>>,
      <<3, 47, 47>>, <<6, 47, 47>>, <<12, 47, 47>>, <<24, 47, 47>>,
      <<31, 47, 47>>, <<1, 49, 49>>, <<2, 49, 49>>, <<4, 49, 49>>,
      <<8, 49, 49>>, <<16, 49, 49>>, <<27, 49, 49>>, <<32, 49, 49>>,
      <<29, 50, 50>> }

\* int(f * coord) with the double f = n / d
int_of_product(n, d, c) ==
    LET g == GCD(n, d)
    IN  IF <<n \div g, d \div g, c>> \in ShortProducts
        THEN IntOf(n * c, d) - 1
        ELSE IntOf(n * c, d)

\* thumbnail with f = min(1.0, size[0] / width): the height bound left out
thumbnail_size_width_only(width, height, max_w, max_h) ==
    IF max_w >= width
    THEN <<width, height>>
    ELSE <<int_of_product(max_w, width, width), int_of_product(max_w, width, height)>>

\* thumbnail with f = min(size[0] / width, size[1] / height): the 1.0 left out
thumbnail_size_upscaling(width, height, max_w, max_h) ==
    IF max_w * height <= max_h * width
    THEN <<int_of_product(max_w, width, width), int_of_product(max_w, width, height)>>
    ELSE <<int_of_product(max_h, height, width), int_of_product(max_h, height, height)>>

\* thumbnail with round(f * coord) in place of int(f * coord)
thumbnail_size_rounded(width, height, max_w, max_h) ==
    IF max_w >= width /\ max_h >= height
    THEN <<width, height>>
    ELSE IF max_w * height <= max_h * width
         THEN <<RoundHalfUp(max_w * width, width), RoundHalfUp(max_w * height, width)>>
         ELSE <<RoundHalfUp(max_h * width, height), RoundHalfUp(max_h * height, height)>>

\* thumbnail: f = min(1.0, size[0] / width, size[1] / height) and the new size
\* [int(f * width), int(f * height)], the same on both engines. With f = 1.0
\* the products are the sides themselves.
thumbnail_size(width, height, max_w, max_h) ==
    IF max_w >= width /\ max_h >= height
    THEN <<width, height>>
    ELSE IF max_w * height <= max_h * width
         THEN <<int_of_product(max_w, width, width), int_of_product(max_w, width, height)>>
         ELSE <<int_of_product(max_h, height, width), int_of_product(max_h, height, height)>>

\* PIL: image.resize([w, h], LANCZOS) returns an image of the requested size;
\* a request for an empty image may raise instead.
pillow_thumbnail_resize(width, height, max_w, max_h) ==
    LET new == thumbnail_size(width, height, max_w, max_h)
    IN  IF new[1] = 0 \/ new[2] = 0
        THEN {Raised, Returned(new[1], new[2])}
        ELSE {Returned(new[1], new[2])}

\* pyvips: image.thumbnail_image(new_width, height=new_height)
vips_thumbnail_resize(width, height, max_w, max_h) ==
    LET new == thumbnail_size(width, height, max_w, max_h)
    IN  vips_thumbnail_image(width, height, new[1], new[2])

-----------------------------------------------------------------------------
(* The processor registries and the chain builder                          *)
(* (processing_pillow.py, processing_vips.py, websafe.py, webp.py)         *)

\* a dict literal
Put(f, k, v) == [x \in DOMAIN f \cup {k} |-> IF x = k THEN v ELSE f[x]]

\* a registered factory: the module it is defined in and its __name__
Factory(impl, name) == [impl |-> impl, name |-> name]

EngineNames ==
    {"default", "autorotate", "process_jpeg", "process_png", "process_gif",
     "preserve_icc_profile", "thumbnail", "crop"}

\* force_jpeg and force_webp are one function each, registered in both registries
SharedNames == {"force_jpeg", "force_webp"}

PILLOW_PROCESSORS ==
    [n \in EngineNames \cup SharedNames |->
        IF n \in SharedNames THEN Factory("shared", n) ELSE Factory("pillow", n)]

VIPS_PROCESSORS ==
    [n \in EngineNames \cup SharedNames |->
        IF n \in SharedNames THEN Factory("shared", n) ELSE Factory("vips", n)]

\* the registry argument of build_handler: None, or a dict
\* an empty dict
EmptyDict == [x \in {} |-> x]

NoRegistry == [given |-> FALSE, map |-> EmptyDict]

Registry(map) == [given |-> TRUE, map |-> map]

EmptyRegistry == Registry(EmptyDict)

\* Python truthiness of the registry argument: None and {} are falsy
Truthy(reg) == reg.given /\ DOMAIN reg.map # {}

\* a specification entry: a bare name (args = <<>>) or a tuple (name, *args)
Part(name, args) == [name |-> name, args |-> args]

\* the processor closure a factory returns
Closure(fac, args) ==
    [impl |-> fac.impl, name |-> fac.name,
     size |-> IF args = <<>> THEN <<>> ELSE args[1]]

\* the handler a factory call or build_handler returns: the closures from the
\* outermost inwards (the base handler, the identity, is the empty chain)
Built(chain) == [ok |-> TRUE, chain |-> chain, type |-> "", name |-> ""]

\* registry[name] raising KeyError(name)
KeyError(name) == [ok |-> FALSE, chain |-> <<>>, type |-> "KeyError", name |-> name]

default_parts ==
    << Part("preserve_icc_profile", <<>>), Part("process_gif", <<>>),
       Part("process_png", <<>>), Part("process_jpeg", <<>>),
       Part("autorotate", <<>>) >>

RECURSIVE build_handler(_, _, _)
RECURSIVE wrap_parts(_, _, _, _)
RECURSIVE wrap_parts_forward(_, _, _, _)
RECURSIVE call_factory(_, _, _)

\* the vips "default" calling build_handler without registry=VIPS_PROCESSORS
call_factory_pillow_default(fac, get_image, args) ==
    IF fac.name = "default"
    THEN build_handler(default_parts, get_image, NoRegistry)
    ELSE Built(<<Closure(fac, args)>> \o get_image)

\* registry[name](handler, *args): the factories of both registries
call_factory(fac, get_image, args) ==
    IF fac.name = "default"
    THEN IF fac.impl = "pillow"
         THEN build_handler(default_parts, get_image, NoRegistry)
         ELSE build_handler(default_parts, get_image, Registry(VIPS_PROCESSORS))
    ELSE Built(<<Closure(fac, args)>> \o get_image)

\* the loop of build_handler, "for part in reversed(processors)", with parts
\* i, i-1, ..., 1 still to wrap around handler
wrap_parts(processors, i, handler, reg) ==
    IF i = 0
    THEN Built(handler)
    ELSE LET part == processors[i]
         IN  IF part.name \notin DOMAIN reg
             THEN KeyError(part.name)
             ELSE LET h == call_factory(reg[part.name], handler, part.args)
                  IN  IF h.ok
                      THEN wrap_parts(processors, i - 1, h.chain, reg)
                      ELSE h

\* the same loop without reversed(): parts i, i+1, ... still to wrap
wrap_parts_forward(processors, i, handler, reg) ==
    IF i > Len(processors)
    THEN Built(handler)
    ELSE LET part == processors[i]
         IN  IF part.name \notin DOMAIN reg
             THEN KeyError(part.name)
             ELSE LET h == call_factory(reg[part.name], handler, part.args)
                  IN  IF h.ok
                      THEN wrap_parts_forward(processors, i + 1, h.chain, reg)
                      ELSE h

\* build_handler iterating over processors instead of reversed(processors)
build_handler_forward(processors, handler, reg) ==
    wrap_parts_forward(processors, 1, handler,
                       IF Truthy(reg) THEN reg.map ELSE PILLOW_PROCESSORS)

\* build_handler(processors, handler, registry); "registry or PILLOW_PROCESSORS"
build_handler(processors, handler, reg) ==
    wrap_parts(processors, Len(processors), handler,
               IF Truthy(reg) THEN reg.map ELSE PILLOW_PROCESSORS)

-----------------------------------------------------------------------------
(* Images and contexts                                                     *)

\* An image handle, as far as the processors look at it: size, mode
\* ("RGB", "RGBA", "L", "P", "CMYK"), the EXIF orientation (1 upright, 6
\* rotated by a quarter turn), info (a dict that may hold "transparency" and
\* "icc_profile") and whether it carries a palette.
Image(sz, mode, orientation, info) ==
    [size |-> sz, mode |-> mode, orientation |-> orientation, info |-> info,
     palette |-> IF mode = "P" THEN "palette" ELSE "None"]

\* the vips view of an image: a decoded image has no palette mode
vips_interpretation(im) ==
    IF im.mode \in {"RGB", "RGBA", "P"} THEN "srgb"
    ELSE IF im.mode = "L" THEN "b-w" ELSE "cmyk"

vips_bands(im) ==
    IF im.mode = "L" THEN 1 ELSE IF im.mode \in {"RGB", "P"} THEN 3 ELSE 4

vips_hasalpha(im) == im.mode = "RGBA"

Context(p, extension, processors, save_kwargs) ==
    [ppoi |-> p, extension |-> extension, processors |-> processors,
     save_kwargs |-> save_kwargs]

SetSaveKwarg(ctx, k, v) == [ctx EXCEPT !.save_kwargs = Put(@, k, v)]

-----------------------------------------------------------------------------
(* The processors: what processor(image, context) of each closure does,    *)
(* as the sequence of its steps; "call" is get_image(image, context). The  *)
(* branch a processor takes is decided by the image and the context it is  *)
(* entered with.                                                           *)

Opt(cond, step) == IF cond THEN <<step>> ELSE <<>>

\* get_image(ImageOps.exif_transpose(image), context);
\* get_image(image.autorot(), context)
autorotate(c, im, ctx) == <<"transpose", "call">>

process_jpeg(c, im, ctx) ==
    IF ctx.save_kwargs["format"] = "JPEG"
    THEN <<"quality_90", "progressive">>
         \o Opt(IF c.impl = "pillow" THEN im.mode # "RGB"
                ELSE vips_interpretation(im) # "srgb", "to_rgb")
         \o <<"call">>
    ELSE <<"call">>

process_png(c, im, ctx) ==
    IF c.impl = "pillow"
    THEN Opt(ctx.save_kwargs["format"] = "PNG" /\ im.mode = "P", "to_rgba")
         \o <<"call">>
    ELSE IF ctx.save_kwargs["format"] = "PNG"
         THEN Opt(vips_bands(im) < 3, "to_rgb")
              \* image.bands == 3 and not image.hasalpha(), after the conversion
              \o Opt(vips_bands(im) < 3
                     \/ (vips_bands(im) = 3 /\ ~vips_hasalpha(im)), "addalpha")
              \o <<"call">>
         ELSE <<"call">>

\* process_gif with the return of its early branch lost: the non-GIF branch
\* calls get_image and then falls through to the GIF branch
process_gif_falls_through(c, im, ctx) ==
    IF ctx.save_kwargs["format"] # "GIF"
    THEN IF c.impl = "pillow"
         THEN <<"call", "getpalette", "call", "putpalette">>
         ELSE <<"call", "call">>
    ELSE IF c.impl = "pillow"
         THEN Opt("transparency" \in DOMAIN im.info, "transparency")
              \o <<"getpalette", "call", "putpalette">>
         ELSE <<"call">>

process_gif(c, im, ctx) ==
    IF ctx.save_kwargs["format"] # "GIF"
    THEN <<"call">>
    ELSE IF c.impl = "pillow"
         THEN Opt("transparency" \in DOMAIN im.info, "transparency")
              \o <<"getpalette", "call", "putpalette">>
         ELSE <<"call">>

\* "if icc_profile:" (Pillow); image.get raising pyvips.Error when there is
\* no profile, "if icc_profile:" otherwise (vips)
preserve_icc_profile(c, im, ctx) ==
    Opt("icc_profile" \in DOMAIN im.info, "icc_profile") \o <<"call">>

\* thumbnail resizing the image it is given before it calls get_image
thumbnail_resize_first(c, im, ctx) == <<"resize", "call">>

thumbnail(c, im, ctx) == <<"call", "resize">>

crop(c, im, ctx) == <<"call", "resize">>

\* force_jpeg setting the quality before it calls downstream
force_jpeg_quality_first(c, im, ctx) == <<"format", "quality_95", "call">>

force_jpeg(c, im, ctx) == <<"format", "call", "quality_95">>

force_webp(c, im, ctx) == <<"format", "call", "quality_95">>

\* processor(image, context) of closure c, entered with image im
Body(c, im, ctx) ==
    CASE c.name = "autorotate" -> autorotate(c, im, ctx)
      [] c.name = "process_jpeg" -> process_jpeg(c, im, ctx)
      [] c.name = "process_png" -> process_png(c, im, ctx)
      [] c.name = "process_gif" -> process_gif(c, im, ctx)
      [] c.name = "preserve_icc_profile" -> preserve_icc_profile(c, im, ctx)
      [] c.name = "thumbnail" -> thumbnail(c, im, ctx)
      [] c.name = "crop" -> crop(c, im, ctx)
      [] c.name = "force_jpeg" -> force_jpeg(c, im, ctx)
      [] c.name = "force_webp" -> force_webp(c, im, ctx)

\* the outcome of one step: the frame's image and saved palette, the context,
\* and whether the step raised
Outcome(im, palette, ctx) ==
    [image |-> im, palette |-> palette, context |-> ctx, raised |-> FALSE]

Raise(im, palette, ctx) ==
    [image |-> im, palette |-> palette, context |-> ctx, raised |-> TRUE]

Resized(c, im, ctx) ==
    IF c.name = "thumbnail"
    THEN IF c.impl = "pillow"
         THEN pillow_thumbnail_resize(im.size[1], im.size[2], c.size[1], c.size[2])
         ELSE vips_thumbnail_resize(im.size[1], im.size[2], c.size[1], c.size[2])
    ELSE IF c.impl = "pillow"
         THEN pillow_crop_resize(
                  calculate_crop_box(im.size[1], im.size[2], c.size[1], c.size[2], ctx.ppoi),
                  c.size[1], c.size[2])
         ELSE vips_crop_thumbnail_image(
                  vips_crop_box(im.size[1], im.size[2], c.size[1], c.size[2], ctx.ppoi),
                  c.size[1], c.size[2])

\* context.save_kwargs["format"] = ... also rewriting the context's extension,
\* as the websafe and webp specs do before the chain runs
set_format_and_extension(c, ctx) ==
    IF c.name = "force_jpeg"
    THEN [SetSaveKwarg(ctx, "format", "JPEG") EXCEPT !.extension = ".jpg"]
    ELSE [SetSaveKwarg(ctx, "format", "WEBP") EXCEPT !.extension = ".webp"]

\* context.save_kwargs["format"] = "JPEG" (force_jpeg), = "WEBP" (force_webp)
set_format(c, ctx) ==
    SetSaveKwarg(ctx, "format", IF c.name = "force_jpeg" THEN "JPEG" ELSE "WEBP")

\* every step but "call"; the set of its possible outcomes
Step(step, c, im, palette, ctx) ==
    CASE step = "transpose" ->
           {Outcome([im EXCEPT !.size = IF im.orientation = 6 THEN <<@[2], @[1]>> ELSE @,
                               !.orientation = 1], palette, ctx)}
      [] step = "quality_90" -> {Outcome(im, palette, SetSaveKwarg(ctx, "quality", 90))}
      [] step = "progressive" -> {Outcome(im, palette, SetSaveKwarg(ctx, "progressive", TRUE))}
      [] step = "to_rgb" ->
           {Outcome([im EXCEPT !.mode = "RGB", !.palette = "None"], palette, ctx)}
      [] step = "to_rgba" ->
           {Outcome([im EXCEPT !.mode = "RGBA", !.palette = "None"], palette, ctx)}
      [] step = "addalpha" ->
           {Outcome([im EXCEPT !.mode = "RGBA", !.palette = "None"], palette, ctx)}
      [] step = "transparency" ->
           {Outcome(im, palette,
                    SetSaveKwarg(ctx, "transparency", im.info["transparency"]))}
      [] step = "icc_profile" ->
           {Outcome(im, palette,
                    SetSaveKwarg(ctx, "icc_profile", im.info["icc_profile"]))}
      [] step = "getpalette" -> {Outcome(im, im.palette, ctx)}
      [] step = "putpalette" ->
           \* image.putpalette(palette) needs an "L" or "P" image and a palette
           IF im.mode \in {"L", "P"} /\ palette # "None"
           THEN {Outcome([im EXCEPT !.mode = "P", !.palette = palette], palette, ctx)}
           ELSE {Raise(im, palette, ctx)}
      [] step = "resize" ->
           { IF r.ok THEN Outcome([im EXCEPT !.size = r.size], palette, ctx)
                     ELSE Raise(im, palette, ctx) : r \in Resized(c, im, ctx) }
      [] step = "format" -> {Outcome(im, palette, set_format(c, ctx))}
      [] step = "quality_95" -> {Outcome(im, palette, SetSaveKwarg(ctx, "quality", 95))}

-----------------------------------------------------------------------------
(* The crop processors: processing_pillow.crop and processing_vips.crop,   *)
(* applied with the identity as downstream handler                         *)

NoBox == [left |-> -1, top |-> -1, width |-> -1, height |-> -1]

NoResult == [ok |-> FALSE, pending |-> TRUE]

Ratio(n, d) == <<n, d>>

\* the default point of interest, 0.5x0.5
Centre == <<Ratio(1, 2), Ratio(1, 2)>>

NoImage == Image(<<0, 0>>, "", 0, EmptyDict)

NoError == [type |-> "", name |-> ""]

\* the chain builder's variables while only the crop geometry is exercised
ChainIdle ==
    /\ registry = NoRegistry
    /\ context = Context(Centre, "", <<>>, EmptyDict)
    /\ image = NoImage
    /\ c_pc = "idle"
    /\ composed = <<>>
    /\ error = NoError
    /\ stack = <<>>
    /\ log = <<>>
    /\ calls = <<>>
    /\ base_calls = 0
    /\ result = NoImage

\* the crop geometry's variables while only the chain builder is exercised
GeometryIdle ==
    /\ image_size = <<1, 1>>
    /\ size = <<1, 1>>
    /\ ppoi = Centre
    /\ g_backend = "idle"
    /\ g_box = NoBox
    /\ g_result = NoResult

\* the value None of the module global _backend_instance
None == [kind |-> "None", id |-> 0, name |-> <<>>]

\* the variables of PillowBackend.save while no save is exercised
SaveIdle ==
    /\ MAXBLOCK = 1
    /\ entry_MAXBLOCK = 1
    /\ s_pc = EmptyDict
    /\ original = EmptyDict
    /\ s_loaded = EmptyDict
    /\ s_image = EmptyDict
    /\ s_attempts = EmptyDict
    /\ fp = EmptyDict
    /\ s_outcome = EmptyDict
    /\ s_left = EmptyDict

\* the variables of the backend singleton while get_backend is not exercised
BackendIdle ==
    /\ IMAGEFIELD_BACKEND = <<>>
    /\ pyvips_importable = FALSE
    /\ backend_instance = None
    /\ created = 0
    /\ b_pc = EmptyDict
    /\ backend_name = EmptyDict
    /\ b_events = <<>>
    /\ b_left = 0

\* the variables of the format override specs while none is exercised
FormatIdle ==
    /\ w_processors = <<>>
    /\ w_extensions = [given |-> FALSE, value |-> {}]
    /\ w_given = Context(Centre, <<>>, <<>>, EmptyDict)
    /\ w_context = w_given
    /\ w_pc = "idle"

NoSize == <<-1, -1>>

\* the thumbnail processor's variables while another part is exercised
ThumbnailIdle ==
    /\ t_image_size = <<0, 0>>
    /\ t_size = <<0, 0>>
    /\ t_backend = "none"
    /\ t_new = NoSize
    /\ t_result = NoResult

NoThumb == [size |-> <<0, 0>>, mode |-> ""]

\* image.format of an image that was not read from a file
NoFormat == ""

\* verify_supported's variables while another part is exercised
VerifyIdle ==
    /\ v_backend = "none"
    /\ v_image = [format |-> NoFormat, mode |-> "", size |-> <<0, 0>>, broken |-> FALSE]
    /\ v_failing = {}
    /\ v_pc = "idle"
    /\ v_thumb = NoThumb
    /\ v_encoded = <<>>

\* the variables of the shared spec function while another part is exercised
AliasIdle ==
    /\ a_spec = [kind |-> "none", extensions |-> [given |-> FALSE, value |-> {}]]
    /\ a_heap = <<>>
    /\ a_original = <<>>
    /\ a_contexts = <<>>
    /\ a_left = 0

PpoiGrid == {<<Ratio(x, PpoiDen), Ratio(y, PpoiDen)>> : x, y \in 0 .. PpoiDen}

\* the scenarios of the test models: 400x300 to 300x300 at ppoi 0.2x0.8,
\* 800x600 to 300x225 at ppoi 0.5x0.5
Scenarios ==
    { [image_size |-> <<400, 300>>, size |-> <<300, 300>>,
       ppoi |-> <<Ratio(1, 5), Ratio(4, 5)>>],
      [image_size |-> <<800, 600>>, size |-> <<300, 225>>,
       ppoi |-> <<Ratio(1, 2), Ratio(1, 2)>>] }

GridInputs ==
    [image_size : (1 .. MaxDim) \X (1 .. MaxDim),
     size : (1 .. MaxTarget) \X (1 .. MaxTarget),
     ppoi : PpoiGrid]

GInit ==
    /\ \E i \in GridInputs \cup Scenarios :
          /\ image_size = i.image_size
          /\ size = i.size
          /\ ppoi = i.ppoi
    /\ g_backend = "none"
    /\ g_box = NoBox
    /\ g_result = NoResult
    /\ ChainIdle
    /\ SaveIdle
    /\ BackendIdle
    /\ FormatIdle
    /\ ThumbnailIdle
    /\ VerifyIdle
    /\ AliasIdle

crop_pillow ==
    /\ g_backend = "none"
    /\ LET box == calculate_crop_box(image_size[1], image_size[2],
                                     size[1], size[2], ppoi)
       IN  /\ g_box' = box
           /\ g_result' \in pillow_crop_resize(box, size[1], size[2])
    /\ g_backend' = "pillow"
    /\ UNCHANGED <<image_size, size, ppoi>>
    /\ UNCHANGED <<c_vars, s_vars, b_vars, w_vars, t_vars, v_vars, a_vars>>

crop_vips ==
    /\ g_backend = "none"
    /\ LET box == vips_crop_box(image_size[1], image_size[2],
                                size[1], size[2], ppoi)
       IN  /\ g_box' = box
           /\ g_result' \in vips_crop_thumbnail_image(box, size[1], size[2])
    /\ g_backend' = "vips"
    /\ UNCHANGED <<image_size, size, ppoi>>
    /\ UNCHANGED <<c_vars, s_vars, b_vars, w_vars, t_vars, v_vars, a_vars>>

GNext ==
    \/ crop_pillow
    \/ crop_vips

SpecCrop == GInit /\ [][GNext]_vars

-----------------------------------------------------------------------------
(* Building a handler from context.processors and running it on an image   *)

\* the inputs of a run: an opened image, the format its context starts with
\* (save_kwargs = {"format": ...}) and the extension
ChainSources ==
    { [image |-> Image(<<4, 2>>, "CMYK", 6, "icc_profile" :> "profile"),
       format |-> "JPEG", extension |-> ".jpg"],
      [image |-> Image(<<3, 3>>, "P", 1, "transparency" :> 0),
       format |-> "PNG", extension |-> ".png"],
      [image |-> Image(<<2, 3>>, "P", 1, "transparency" :> 0),
       format |-> "GIF", extension |-> ".gif"],
      [image |-> Image(<<2, 3>>, "L", 1, EmptyDict),
       format |-> "GIF", extension |-> ".gif"],
      [image |-> Image(<<3, 2>>, "RGB", 1, "icc_profile" :> "profile"),
       format |-> "BMP", extension |-> ".bmp"],
      [image |-> Image(<<2, 2>>, "RGBA", 1, EmptyDict),
       format |-> "TIFF", extension |-> ".tiff"] }

\* the entries a specification list is made of; "sepia" is registered nowhere
ChainParts ==
    { Part(n, <<>>) : n \in {"default", "autorotate", "process_jpeg", "process_png",
                             "process_gif", "preserve_icc_profile", "force_jpeg",
                             "force_webp", "sepia"} }
    \cup { Part("thumbnail", << <<2, 2>> >>), Part("crop", << <<1, 2>> >>) }

SpecLists == UNION { [1 .. n -> ChainParts] : n \in 0 .. MaxSpecLen }

RegistryArgs ==
    {NoRegistry, Registry(PILLOW_PROCESSORS), Registry(VIPS_PROCESSORS), EmptyRegistry}

CInit ==
    /\ registry \in RegistryArgs
    /\ \E src \in ChainSources, processors \in SpecLists :
          /\ image = src.image
          /\ context = Context(Centre, src.extension, processors,
                               [format |-> src.format])
    /\ c_pc = "init"
    /\ composed = <<>>
    /\ error = NoError
    /\ stack = <<>>
    /\ log = <<>>
    /\ calls = <<>>
    /\ base_calls = 0
    /\ result = NoImage
    /\ GeometryIdle
    /\ SaveIdle
    /\ BackendIdle
    /\ FormatIdle
    /\ ThumbnailIdle
    /\ VerifyIdle
    /\ AliasIdle

Frame(c, steps, im, palette) ==
    [closure |-> c, steps |-> steps, image |-> im, palette |-> palette]

Top == stack[Len(stack)]

\* the image a call passes on: the caller's, or the one the run started with
Argument == IF stack = <<>> THEN image ELSE Top.image

Logged(depth, name, step) == [depth |-> depth, name |-> name, step |-> step]

\* handler = build_handler(context.processors, registry=...)
Build ==
    /\ c_pc = "init"
    /\ LET h == build_handler(context.processors, <<>>, registry)
       IN  /\ composed' = h.chain
           /\ error' = [type |-> h.type, name |-> h.name]
           /\ c_pc' = IF h.ok THEN "built" ELSE "failed"
           /\ calls' = [i \in 1 .. Len(h.chain) |-> 0]
    /\ UNCHANGED <<registry, context, image, stack, log, base_calls, result>>
    /\ UNCHANGED <<g_vars, s_vars, b_vars, w_vars, t_vars, v_vars, a_vars>>

\* handler(image, context)
Invoke ==
    /\ c_pc = "built"
    /\ c_pc' = "calling"
    /\ UNCHANGED <<registry, context, image, composed, error, stack, log, calls,
                   base_calls, result>>
    /\ UNCHANGED <<g_vars, s_vars, b_vars, w_vars, t_vars, v_vars, a_vars>>

\* a call arrives at the next closure of the chain: processor(image, context)
Enter ==
    /\ c_pc = "calling"
    /\ Len(stack) < Len(composed)
    /\ LET c == composed[Len(stack) + 1]
       IN  /\ stack' = Append(stack, Frame(c, Body(c, Argument, context), Argument, "unset"))
           /\ log' = Append(log, Logged(Len(stack) + 1, c.name, "enter"))
    /\ c_pc' = "running"
    /\ UNCHANGED <<registry, context, image, composed, error, calls, base_calls, result>>
    /\ UNCHANGED <<g_vars, s_vars, b_vars, w_vars, t_vars, v_vars, a_vars>>

\* a call arrives at the base handler, lambda image, context: image
Base ==
    /\ c_pc = "calling"
    /\ Len(stack) = Len(composed)
    /\ base_calls' = base_calls + 1
    /\ log' = Append(log, Logged(Len(stack) + 1, "base", "base"))
    /\ IF stack = <<>>
       THEN c_pc' = "done" /\ result' = image
       ELSE c_pc' = "running" /\ result' = result
    /\ UNCHANGED <<registry, context, image, composed, error, stack, calls>>
    /\ UNCHANGED <<g_vars, s_vars, b_vars, w_vars, t_vars, v_vars, a_vars>>

\* the running processor takes its next step, other than a call
Do ==
    /\ c_pc = "running"
    /\ Top.steps # <<>>
    /\ Head(Top.steps) # "call"
    /\ \E o \in Step(Head(Top.steps), Top.closure, Top.image, Top.palette, context) :
          IF o.raised
          THEN /\ c_pc' = "raised"
               /\ error' = [type |-> "Error", name |-> Top.closure.name]
               /\ UNCHANGED <<context, stack>>
          ELSE /\ c_pc' = "running"
               /\ error' = error
               /\ context' = o.context
               /\ stack' = [stack EXCEPT ![Len(stack)] =
                               Frame(Top.closure, Tail(Top.steps), o.image, o.palette)]
    /\ log' = Append(log, Logged(Len(stack), Top.closure.name, Head(Top.steps)))
    /\ UNCHANGED <<registry, image, composed, calls, base_calls, result>>
    /\ UNCHANGED <<g_vars, s_vars, b_vars, w_vars, t_vars, v_vars, a_vars>>

\* the running processor calls get_image(image, context)
Call ==
    /\ c_pc = "running"
    /\ Top.steps # <<>>
    /\ Head(Top.steps) = "call"
    /\ calls' = [calls EXCEPT ![Len(stack)] = @ + 1]
    /\ stack' = [stack EXCEPT ![Len(stack)].steps = Tail(@)]
    /\ log' = Append(log, Logged(Len(stack), Top.closure.name, "call"))
    /\ c_pc' = "calling"
    /\ UNCHANGED <<registry, context, image, composed, error, base_calls, result>>
    /\ UNCHANGED <<g_vars, s_vars, b_vars, w_vars, t_vars, v_vars, a_vars>>

\* the running processor returns its image to its caller
Return ==
    /\ c_pc = "running"
    /\ Top.steps = <<>>
    /\ log' = Append(log, Logged(Len(stack), Top.closure.name, "return"))
    /\ IF Len(stack) = 1
       THEN /\ stack' = <<>>
            /\ result' = Top.image
            /\ c_pc' = "done"
       ELSE /\ stack' = [SubSeq(stack, 1, Len(stack) - 1)
                            EXCEPT ![Len(stack) - 1].image = Top.image]
            /\ result' = result
            /\ c_pc' = "running"
    /\ UNCHANGED <<registry, context, image, composed, error, calls, base_calls>>
    /\ UNCHANGED <<g_vars, s_vars, b_vars, w_vars, t_vars, v_vars, a_vars>>

CNext ==
    \/ Build
    \/ Invoke
    \/ Enter
    \/ Base
    \/ Do
    \/ Call
    \/ Return

SpecChain == CInit /\ [][CNext]_vars

-----------------------------------------------------------------------------
(* PillowBackend.save (backend_pillow.py): the encoder is tried, on OSError *)
(* tried once more under MAXBLOCK * 16, and "finally" MAXBLOCK is set back  *)
(* to the value read on entry. ImageFile.MAXBLOCK is one attribute of one   *)
(* module, shared by all threads; every read and every write of it is a     *)
(* step of its own.                                                         *)

SaveThreads == {"t1", "t2"}

\* an image and its sink as far as the encoder is concerned: the block size
\* the encoding needs, and whether encoding fails whatever the block size:
\* with OSError on every attempt (a mode the format cannot hold), with
\* OSError on the first attempt only (a write to the sink that fails once),
\* or with another exception (KeyError for an unknown format, ValueError)
SaveImages(m0) ==
    [need : {m0, 16 * m0, 16 * m0 + 1},
     fault : {"none", "OSError", "sink_once", "other"}]

\* what one encoder call put into the sink
Chunk(attempt, complete) == [attempt |-> attempt, complete |-> complete]

Encoded(raised, written) == [raised |-> raised, written |-> written]

\* image.save(fp, format=format, **kwargs) under the block size maxblock: the
\* outcomes of the encoder. An encoder that fails may already have written
\* the beginning of its output.
image_save(im, maxblock, attempt) ==
    IF im.fault = "other"
    THEN {Encoded("other", <<>>)}
    ELSE IF im.fault = "OSError" \/ im.need > maxblock
         THEN {Encoded("OSError", <<>>),
               Encoded("OSError", <<Chunk(attempt, FALSE)>>)}
         ELSE IF im.fault = "sink_once" /\ attempt = 1
              THEN {Encoded("OSError", <<Chunk(attempt, FALSE)>>)}
              ELSE {Encoded("", <<Chunk(attempt, TRUE)>>)}

\* "except:" in place of "except OSError:"
handles_any(raised) == raised # ""

\* except OSError:
handles(raised) == raised = "OSError"

\* ImageFile.MAXBLOCK *= 16, the value stored for the value loaded
enlarged(loaded) == loaded * 16

\* a finally clause that leaves MAXBLOCK as it finds it
finally_value_current(orig, current) == current

\* finally: ImageFile.MAXBLOCK = original
finally_value(orig, current) == orig

Attempt(maxblock, raised) == [maxblock |-> maxblock, raised |-> raised]

SaveInit(threads, n) ==
    /\ MAXBLOCK \in 1 .. MaxBlock
    /\ entry_MAXBLOCK = MAXBLOCK
    /\ s_pc = [t \in threads |-> "idle"]
    /\ original = [t \in threads |-> 0]
    /\ s_loaded = [t \in threads |-> 0]
    /\ s_image = [t \in threads |-> [need |-> 0, fault |-> "none"]]
    /\ s_attempts = [t \in threads |-> <<>>]
    /\ fp = [t \in threads |-> <<>>]
    /\ s_outcome = [t \in threads |-> "none"]
    /\ s_left = [t \in threads |-> n]
    /\ GeometryIdle
    /\ ChainIdle
    /\ BackendIdle
    /\ FormatIdle
    /\ ThumbnailIdle
    /\ VerifyIdle
    /\ AliasIdle

\* calls of one thread, one after the other
SInit == SaveInit({"t1"}, MaxSaves)

\* one call in each of several threads
TInit == SaveInit(SaveThreads, 1)

\* original = ImageFile.MAXBLOCK
save_enter(t) ==
    /\ s_pc[t] = "idle"
    /\ s_left[t] > 0
    /\ \E im \in SaveImages(entry_MAXBLOCK) : s_image' = [s_image EXCEPT ![t] = im]
    /\ original' = [original EXCEPT ![t] = MAXBLOCK]
    /\ s_attempts' = [s_attempts EXCEPT ![t] = <<>>]
    /\ fp' = [fp EXCEPT ![t] = <<>>]
    /\ s_left' = [s_left EXCEPT ![t] = @ - 1]
    /\ s_pc' = [s_pc EXCEPT ![t] = "first"]
    /\ UNCHANGED <<MAXBLOCK, entry_MAXBLOCK, s_loaded, s_outcome>>
    /\ UNCHANGED <<g_vars, c_vars, b_vars, w_vars, t_vars, v_vars, a_vars>>

\* try: image.save(fp, format=format, **kwargs)
first_attempt(t) ==
    /\ s_pc[t] = "first"
    /\ \E o \in image_save(s_image[t], MAXBLOCK, 1) :
          /\ s_attempts' = [s_attempts EXCEPT ![t] = Append(@, Attempt(MAXBLOCK, o.raised))]
          /\ fp' = [fp EXCEPT ![t] = @ \o o.written]
          /\ s_pc' = [s_pc EXCEPT ![t] = IF handles(o.raised) THEN "load" ELSE "finally"]
    /\ UNCHANGED <<MAXBLOCK, entry_MAXBLOCK, original, s_loaded, s_image, s_outcome, s_left>>
    /\ UNCHANGED <<g_vars, c_vars, b_vars, w_vars, t_vars, v_vars, a_vars>>

\* ImageFile.MAXBLOCK *= 16: the read
enlarge_load(t) ==
    /\ s_pc[t] = "load"
    /\ s_loaded' = [s_loaded EXCEPT ![t] = MAXBLOCK]
    /\ s_pc' = [s_pc EXCEPT ![t] = "store"]
    /\ UNCHANGED <<MAXBLOCK, entry_MAXBLOCK, original, s_image, s_attempts, fp,
                   s_outcome, s_left>>
    /\ UNCHANGED <<g_vars, c_vars, b_vars, w_vars, t_vars, v_vars, a_vars>>

\* ImageFile.MAXBLOCK *= 16: the write
enlarge_store(t) ==
    /\ s_pc[t] = "store"
    /\ MAXBLOCK' = enlarged(s_loaded[t])
    /\ s_pc' = [s_pc EXCEPT ![t] = "second"]
    /\ UNCHANGED <<entry_MAXBLOCK, original, s_loaded, s_image, s_attempts, fp,
                   s_outcome, s_left>>
    /\ UNCHANGED <<g_vars, c_vars, b_vars, w_vars, t_vars, v_vars, a_vars>>

\* except OSError: ... image.save(fp, format=format, **kwargs)
second_attempt(t) ==
    /\ s_pc[t] = "second"
    /\ \E o \in image_save(s_image[t], MAXBLOCK, 2) :
          /\ s_attempts' = [s_attempts EXCEPT ![t] = Append(@, Attempt(MAXBLOCK, o.raised))]
          /\ fp' = [fp EXCEPT ![t] = @ \o o.written]
    /\ s_pc' = [s_pc EXCEPT ![t] = "finally"]
    /\ UNCHANGED <<MAXBLOCK, entry_MAXBLOCK, original, s_loaded, s_image, s_outcome, s_left>>
    /\ UNCHANGED <<g_vars, c_vars, b_vars, w_vars, t_vars, v_vars, a_vars>>

\* finally: ImageFile.MAXBLOCK = original; then the call returns, or the
\* exception of its last encoder call propagates
save_finally(t) ==
    /\ s_pc[t] = "finally"
    /\ MAXBLOCK' = finally_value(original[t], MAXBLOCK)
    /\ LET last == s_attempts[t][Len(s_attempts[t])]
       IN  s_outcome' = [s_outcome EXCEPT ![t] =
                            IF last.raised = "" THEN "returned" ELSE last.raised]
    /\ s_pc' = [s_pc EXCEPT ![t] = "idle"]
    /\ UNCHANGED <<entry_MAXBLOCK, original, s_loaded, s_image, s_attempts, fp, s_left>>
    /\ UNCHANGED <<g_vars, c_vars, b_vars, w_vars, t_vars, v_vars, a_vars>>

SNext ==
    \E t \in DOMAIN s_pc :
        \/ save_enter(t)
        \/ first_attempt(t)
        \/ enlarge_load(t)
        \/ enlarge_store(t)
        \/ second_attempt(t)
        \/ save_finally(t)

SpecSave == SInit /\ [][SNext]_vars

SpecSaveThreads == TInit /\ [][SNext]_vars

-----------------------------------------------------------------------------
(* The backend singleton (backends.py): get_backend resolves              *)
(* settings.IMAGEFIELD_BACKEND once and keeps the instance in the module   *)
(* global _backend_instance; reset_backend sets the global back to None.   *)
(* Strings that the code lower-cases are sequences of characters.          *)

UpperCase ==
    <<"A", "B", "C", "D", "E", "F", "G", "H", "I", "J", "K", "L", "M",
      "N", "O", "P", "Q", "R", "S", "T", "U", "V", "W", "X", "Y", "Z">>

LowerCase ==
    <<"a", "b", "c", "d", "e", "f", "g", "h", "i", "j", "k", "l", "m",
      "n", "o", "p", "q", "r", "s", "t", "u", "v", "w", "x", "y", "z">>

\* str.lower() without any effect
lower_unchanged(chars) == chars

\* str.lower()
lower(chars) ==
    [i \in 1 .. Len(chars) |->
        IF \E k \in 1 .. Len(UpperCase) : UpperCase[k] = chars[i]
        THEN LowerCase[CHOOSE k \in 1 .. Len(UpperCase) : UpperCase[k] = chars[i]]
        ELSE chars[i]]

pillow == <<"p", "i", "l", "l", "o", "w">>

vips == <<"v", "i", "p", "s">>

\* the values of settings.IMAGEFIELD_BACKEND
BackendSettings ==
    { pillow, <<"P", "I", "L", "L", "O", "W">>, <<"P", "i", "l", "l", "o", "w">>,
      vips, <<"V", "I", "P", "S">>, <<"v", "i", "P", "s">>,
      <<"u", "n", "k", "n", "o", "w", "n">>, <<"P", "I", "L">> }

BackendThreads == {"t1", "t2"}

\* PillowBackend() or VipsBackend(): the n-th object created, and its name
Instance(n, name) == [kind |-> "instance", id |-> n, name |-> name]

\* PillowBackend() / VipsBackend(): a new object each time
new_instance(n, name) == Instance(n + 1, name)

Raises(type) == [kind |-> type, id |-> 0, name |-> <<>>]

\* a finished operation: what it was, who ran it, what it returned or raised,
\* the setting at that time, whether get_backend found an instance cached,
\* and how many instances had been created by then
Event(op, t, res, cached) ==
    [op |-> op, thread |-> t, result |-> res, setting |-> IMAGEFIELD_BACKEND,
     cached |-> cached, created |-> created]

BackendInit(threads) ==
    /\ IMAGEFIELD_BACKEND \in BackendSettings
    /\ pyvips_importable \in BOOLEAN
    /\ backend_instance = None
    /\ created = 0
    /\ b_pc = [t \in threads |-> "idle"]
    /\ backend_name = [t \in threads |-> <<>>]
    /\ b_events = <<>>
    /\ b_left = MaxOps
    /\ GeometryIdle
    /\ ChainIdle
    /\ SaveIdle
    /\ FormatIdle
    /\ ThumbnailIdle
    /\ VerifyIdle
    /\ AliasIdle

\* operations of one thread, one after the other
BInit == BackendInit({"t1"})

\* operations of several threads
BTInit == BackendInit(BackendThreads)

\* a test that never finds the instance cached
is_None_always(inst) == TRUE

\* _backend_instance is None
is_None(inst) == inst = None

\* get_backend is called
get_enter(t) ==
    /\ b_pc[t] = "idle"
    /\ b_left > 0
    /\ b_left' = b_left - 1
    /\ b_pc' = [b_pc EXCEPT ![t] = "test"]
    /\ UNCHANGED <<IMAGEFIELD_BACKEND, pyvips_importable, backend_instance, created,
                   backend_name, b_events>>
    /\ UNCHANGED <<g_vars, c_vars, s_vars, w_vars, t_vars, v_vars, a_vars>>

\* if _backend_instance is None:
get_test(t) ==
    /\ b_pc[t] = "test"
    /\ b_pc' = [b_pc EXCEPT ![t] =
                   IF is_None(backend_instance) THEN "resolve" ELSE "return_cached"]
    /\ UNCHANGED <<IMAGEFIELD_BACKEND, pyvips_importable, backend_instance, created,
                   backend_name, b_events, b_left>>
    /\ UNCHANGED <<g_vars, c_vars, s_vars, w_vars, t_vars, v_vars, a_vars>>

\* backend_name = settings.IMAGEFIELD_BACKEND.lower()
get_resolve(t) ==
    /\ b_pc[t] = "resolve"
    /\ backend_name' = [backend_name EXCEPT ![t] = lower(IMAGEFIELD_BACKEND)]
    /\ b_pc' = [b_pc EXCEPT ![t] = "select"]
    /\ UNCHANGED <<IMAGEFIELD_BACKEND, pyvips_importable, backend_instance, created,
                   b_events, b_left>>
    /\ UNCHANGED <<g_vars, c_vars, s_vars, w_vars, t_vars, v_vars, a_vars>>

\* if backend_name == "pillow": _backend_instance = PillowBackend()
\* elif backend_name == "vips": try: _backend_instance = VipsBackend()
get_create(t) ==
    /\ b_pc[t] = "select"
    /\ \/ backend_name[t] = pillow
       \/ backend_name[t] = vips /\ pyvips_importable
    /\ backend_instance' = new_instance(created, backend_name[t])
    /\ created' = created + 1
    /\ b_pc' = [b_pc EXCEPT ![t] = "return_new"]
    /\ UNCHANGED <<IMAGEFIELD_BACKEND, pyvips_importable, backend_name, b_events, b_left>>
    /\ UNCHANGED <<g_vars, c_vars, s_vars, w_vars, t_vars, v_vars, a_vars>>

\* except ImportError as e: raise ImportError(...) from e
get_raise_ImportError(t) ==
    /\ b_pc[t] = "select"
    /\ backend_name[t] = vips
    /\ ~pyvips_importable
    /\ b_events' = Append(b_events, Event("get_backend", t, Raises("ImportError"), FALSE))
    /\ b_pc' = [b_pc EXCEPT ![t] = "idle"]
    /\ UNCHANGED <<IMAGEFIELD_BACKEND, pyvips_importable, backend_instance, created,
                   backend_name, b_left>>
    /\ UNCHANGED <<g_vars, c_vars, s_vars, w_vars, t_vars, v_vars, a_vars>>

\* else: raise ValueError(...)
get_raise_ValueError(t) ==
    /\ b_pc[t] = "select"
    /\ backend_name[t] \notin {pillow, vips}
    /\ b_events' = Append(b_events, Event("get_backend", t, Raises("ValueError"), FALSE))
    /\ b_pc' = [b_pc EXCEPT ![t] = "idle"]
    /\ UNCHANGED <<IMAGEFIELD_BACKEND, pyvips_importable, backend_instance, created,
                   backend_name, b_left>>
    /\ UNCHANGED <<g_vars, c_vars, s_vars, w_vars, t_vars, v_vars, a_vars>>

\* return _backend_instance: the global is read again
get_return(t) ==
    /\ b_pc[t] \in {"return_cached", "return_new"}
    /\ b_events' = Append(b_events, Event("get_backend", t, backend_instance,
                                          b_pc[t] = "return_cached"))
    /\ b_pc' = [b_pc EXCEPT ![t] = "idle"]
    /\ UNCHANGED <<IMAGEFIELD_BACKEND, pyvips_importable, backend_instance, created,
                   backend_name, b_left>>
    /\ UNCHANGED <<g_vars, c_vars, s_vars, w_vars, t_vars, v_vars, a_vars>>

\* a reset that leaves the global as it is
reset_value_kept(inst) == inst

\* _backend_instance = None
reset_value(inst) == None

\* reset_backend()
reset_backend(t) ==
    /\ b_pc[t] = "idle"
    /\ b_left > 0
    /\ b_left' = b_left - 1
    /\ backend_instance' = reset_value(backend_instance)
    /\ b_events' = Append(b_events, Event("reset_backend", t, None, FALSE))
    /\ UNCHANGED <<IMAGEFIELD_BACKEND, pyvips_importable, created, b_pc, backend_name>>
    /\ UNCHANGED <<g_vars, c_vars, s_vars, w_vars, t_vars, v_vars, a_vars>>

\* the setting is changed (override_settings(IMAGEFIELD_BACKEND=...))
override_settings(t) ==
    /\ b_pc[t] = "idle"
    /\ b_left > 0
    /\ b_left' = b_left - 1
    /\ \E v \in BackendSettings \ {IMAGEFIELD_BACKEND} : IMAGEFIELD_BACKEND' = v
    /\ UNCHANGED <<pyvips_importable, backend_instance, created, b_pc, backend_name,
                   b_events>>
    /\ UNCHANGED <<g_vars, c_vars, s_vars, w_vars, t_vars, v_vars, a_vars>>

BNext ==
    \E t \in DOMAIN b_pc :
        \/ get_enter(t)
        \/ get_test(t)
        \/ get_resolve(t)
        \/ get_create(t)
        \/ get_raise_ImportError(t)
        \/ get_raise_ValueError(t)
        \/ get_return(t)
        \/ reset_backend(t)
        \/ override_settings(t)

SpecBackend == BInit /\ [][BNext]_vars

SpecBackendThreads == BTInit /\ [][BNext]_vars

-----------------------------------------------------------------------------
(* The format override specs: websafe (websafe.py) and webp (webp.py)      *)
(* return a function spec(fieldfile, context) that rewrites the context's  *)
(* extension and processors before the chain is built. Extensions are      *)
(* sequences of characters.                                                *)

dot_png == <<".", "p", "n", "g">>

dot_gif == <<".", "g", "i", "f">>

dot_jpg == <<".", "j", "p", "g">>

dot_jpeg == <<".", "j", "p", "e", "g">>

dot_webp == <<".", "w", "e", "b", "p">>

dot_bmp == <<".", "b", "m", "p">>

\* the extensions of the files a context is made for
FileExtensions ==
    { dot_png, <<".", "P", "N", "G">>, dot_gif, dot_jpg, <<".", "J", "P", "G">>,
      dot_jpeg, <<".", "J", "p", "e", "g">>, dot_bmp, <<".", "t", "i", "f", "f">>,
      dot_webp, <<".", "W", "E", "B", "P">>, <<>> }

\* the extensions argument of websafe: omitted (None), or a set
NoExtensions == [given |-> FALSE, value |-> {}]

Extensions(value) == [given |-> TRUE, value |-> value]

ExtensionsArgs ==
    {NoExtensions, Extensions({}), Extensions({dot_png}), Extensions({dot_bmp, dot_jpg})}

\* extensions = extensions or {".png", ".gif", ".jpg", ".jpeg"}
accepted_extensions(extensions) ==
    IF extensions.given /\ extensions.value # {}
    THEN extensions.value
    ELSE {dot_png, dot_gif, dot_jpg, dot_jpeg}

\* the spec function adding force_jpeg behind the given processors
websafe_force_last(processors, extensions, ctx) ==
    IF lower(ctx.extension) \in accepted_extensions(extensions)
    THEN [ctx EXCEPT !.processors = processors]
    ELSE [ctx EXCEPT !.extension = dot_jpg,
                     !.processors = processors \o <<Part("force_jpeg", <<>>)>>]

\* websafe(processors, extensions)(fieldfile, context): the context afterwards
websafe(processors, extensions, ctx) ==
    IF lower(ctx.extension) \in accepted_extensions(extensions)
    THEN [ctx EXCEPT !.processors = processors]
    ELSE [ctx EXCEPT !.extension = dot_jpg,
                     !.processors = <<Part("force_jpeg", <<>>)>> \o processors]

\* the spec function leaving a context alone whose extension is .webp already
webp_unless_webp(processors, ctx) ==
    IF lower(ctx.extension) = dot_webp
    THEN [ctx EXCEPT !.processors = processors]
    ELSE [ctx EXCEPT !.extension = dot_webp,
                     !.processors = <<Part("force_webp", <<>>)>> \o processors]

\* webp(processors)(fieldfile, context): the context afterwards
webp(processors, ctx) ==
    [ctx EXCEPT !.extension = dot_webp,
                !.processors = <<Part("force_webp", <<>>)>> \o processors]

FormatParts ==
    {Part("default", <<>>), Part("autorotate", <<>>), Part("crop", << <<1, 2>> >>)}

FormatLists == UNION { [1 .. n -> FormatParts] : n \in 0 .. MaxSpecLen }

WInit ==
    /\ w_processors \in FormatLists
    /\ w_extensions \in ExtensionsArgs
    /\ \E e \in FileExtensions : w_given = Context(Centre, e, <<>>, EmptyDict)
    /\ w_context = w_given
    /\ w_pc = "init"
    /\ GeometryIdle
    /\ ChainIdle
    /\ SaveIdle
    /\ BackendIdle
    /\ ThumbnailIdle
    /\ VerifyIdle
    /\ AliasIdle

\* websafe(processors, extensions)(fieldfile, context)
apply_websafe ==
    /\ w_pc = "init"
    /\ w_context' = websafe(w_processors, w_extensions, w_context)
    /\ w_pc' = "websafe"
    /\ UNCHANGED <<w_processors, w_extensions, w_given>>
    /\ UNCHANGED <<g_vars, c_vars, s_vars, b_vars, t_vars, v_vars, a_vars>>

\* webp(processors)(fieldfile, context)
apply_webp ==
    /\ w_pc = "init"
    /\ w_extensions = NoExtensions
    /\ w_context' = webp(w_processors, w_context)
    /\ w_pc' = "webp"
    /\ UNCHANGED <<w_processors, w_extensions, w_given>>
    /\ UNCHANGED <<g_vars, c_vars, s_vars, b_vars, t_vars, v_vars, a_vars>>

WNext ==
    \/ apply_websafe
    \/ apply_webp

SpecFormat == WInit /\ [][WNext]_vars

-----------------------------------------------------------------------------
(* The thumbnail processors: processing_pillow.thumbnail and               *)
(* processing_vips.thumbnail, applied with the identity as downstream      *)
(* handler                                                                 *)

\* every source size and maximum size within the bounds
ThumbnailGrid ==
    { <<<<w, h>>, <<mw, mh>>>> : w, h \in 1 .. MaxDim, mw, mh \in 1 .. MaxTarget }

\* larger inputs: the 800x600 source of the documentation with (300, 225),
\* and sources whose double products fall short
ThumbnailScenarios ==
    { <<<<800, 600>>, <<300, 225>>>>,
      <<<<49, 49>>, <<1, 1>>>>,
      <<<<22, 22>>, <<15, 15>>>>,
      <<<<22, 44>>, <<15, 44>>>>,
      <<<<47, 1>>, <<3, 3>>>>,
      <<<<50, 50>>, <<29, 29>>>>,
      <<<<21, 20>>, <<13, 17>>>> }

ThumbnailInit ==
    /\ \E input \in ThumbnailGrid \cup ThumbnailScenarios :
          /\ t_image_size = input[1]
          /\ t_size = input[2]
    /\ t_backend = "none"
    /\ t_new = NoSize
    /\ t_result = NoResult
    /\ GeometryIdle
    /\ ChainIdle
    /\ SaveIdle
    /\ BackendIdle
    /\ FormatIdle
    /\ VerifyIdle
    /\ AliasIdle

\* processing_pillow.thumbnail: image.resize([int(f * coord) ...], LANCZOS)
thumbnail_pillow ==
    /\ t_backend = "none"
    /\ t_backend' = "pillow"
    /\ t_new' = thumbnail_size(t_image_size[1], t_image_size[2], t_size[1], t_size[2])
    /\ t_result' \in pillow_thumbnail_resize(t_image_size[1], t_image_size[2],
                                             t_size[1], t_size[2])
    /\ UNCHANGED <<t_image_size, t_size>>
    /\ UNCHANGED <<g_vars, c_vars, s_vars, b_vars, w_vars, v_vars, a_vars>>

\* processing_vips.thumbnail: image.thumbnail_image(new_width, height=new_height)
thumbnail_vips ==
    /\ t_backend = "none"
    /\ t_backend' = "vips"
    /\ t_new' = thumbnail_size(t_image_size[1], t_image_size[2], t_size[1], t_size[2])
    /\ t_result' \in vips_thumbnail_resize(t_image_size[1], t_image_size[2],
                                           t_size[1], t_size[2])
    /\ UNCHANGED <<t_image_size, t_size>>
    /\ UNCHANGED <<g_vars, c_vars, s_vars, b_vars, w_vars, v_vars, a_vars>>

ThumbnailNext ==
    \/ thumbnail_pillow
    \/ thumbnail_vips

SpecThumbnail == ThumbnailInit /\ [][ThumbnailNext]_vars

-----------------------------------------------------------------------------
(* verify_supported (backend_pillow.py, backend_vips.py): a small          *)
(* thumbnail of the image is made and encoded three times; nothing is      *)
(* caught, so the first call that raises ends verify_supported.            *)

\* the box of the small thumbnail
ThumbBox == <<10, 10>>

\* the three encodes. PillowBackend: format=image.format or "JPEG", "PNG",
\* "TIFF"; VipsBackend: write_to_buffer(".jpg"), (".png"), (".tif")
verify_targets(backend, im) ==
    IF backend = "pillow"
    THEN << IF im.format = NoFormat THEN "JPEG" ELSE im.format, "PNG", "TIFF" >>
    ELSE <<"JPEG", "PNG", "TIFF">>

\* the thumbnail. PillowBackend: image.resize((10, 10)).convert("RGB"), exactly
\* the box and mode RGB; VipsBackend: image.thumbnail_image(10, height=10)
\* .colourspace("srgb"), the image fitted into the box, and the conversion
\* keeps an alpha band
verify_thumbnail(backend, im) ==
    IF backend = "pillow"
    THEN {[size |-> ThumbBox, mode |-> "RGB"]}
    ELSE { [size |-> r.size, mode |-> IF im.mode = "RGBA" THEN "RGBA" ELSE "RGB"] :
             r \in vips_thumbnail_image(im.size[1], im.size[2],
                                        ThumbBox[1], ThumbBox[2]) }

\* the inputs: a backend; an opened image with its detected format (vips'
\* get_format never reports none), mode and size, sound or broken; and the
\* encoders that fail for it, none or one of them
VerifyInit ==
    /\ v_backend \in {"pillow", "vips"}
    /\ v_image \in
          { [format |-> f, mode |-> m, size |-> sz, broken |-> b] :
              f \in {"JPEG", "PNG", "GIF", "TIFF", "WEBP"}
                       \cup (IF v_backend = "pillow" THEN {NoFormat} ELSE {}),
              m \in {"RGB", "RGBA", "L"},
              sz \in {<<20, 10>>, <<10, 10>>}, b \in BOOLEAN }
    /\ v_failing \in {{}} \cup { {f} : f \in {"JPEG", "PNG", "GIF", "TIFF"} }
    /\ v_pc = "init"
    /\ v_thumb = NoThumb
    /\ v_encoded = <<>>
    /\ GeometryIdle
    /\ ChainIdle
    /\ SaveIdle
    /\ BackendIdle
    /\ FormatIdle
    /\ ThumbnailIdle
    /\ AliasIdle

\* thumb = ...: the resize and the conversion of a broken image raise
verify_thumb ==
    /\ v_pc = "init"
    /\ IF v_image.broken
       THEN v_pc' = "raised" /\ v_thumb' = v_thumb
       ELSE /\ v_pc' = "encode"
            /\ v_thumb' \in verify_thumbnail(v_backend, v_image)
    /\ UNCHANGED <<v_backend, v_image, v_failing, v_encoded>>
    /\ UNCHANGED <<g_vars, c_vars, s_vars, b_vars, w_vars, t_vars, a_vars>>

\* the next self.save(thumb, target, format=...) or thumb.write_to_buffer(...)
verify_encode ==
    /\ v_pc = "encode"
    /\ Len(v_encoded) < Len(verify_targets(v_backend, v_image))
    /\ LET target == verify_targets(v_backend, v_image)[Len(v_encoded) + 1]
       IN  IF target \in v_failing
           THEN v_pc' = "raised" /\ v_encoded' = v_encoded
           ELSE v_pc' = "encode" /\ v_encoded' = Append(v_encoded, target)
    /\ UNCHANGED <<v_backend, v_image, v_failing, v_thumb>>
    /\ UNCHANGED <<g_vars, c_vars, s_vars, b_vars, w_vars, t_vars, a_vars>>

\* return True
verify_return ==
    /\ v_pc = "encode"
    /\ Len(v_encoded) = Len(verify_targets(v_backend, v_image))
    /\ v_pc' = "returned"
    /\ UNCHANGED <<v_backend, v_image, v_failing, v_thumb, v_encoded>>
    /\ UNCHANGED <<g_vars, c_vars, s_vars, b_vars, w_vars, t_vars, a_vars>>

VerifyNext ==
    \/ verify_thumb
    \/ verify_encode
    \/ verify_return

SpecVerify == VerifyInit /\ [][VerifyNext]_vars

-----------------------------------------------------------------------------
(* One spec function applied to several contexts (websafe.py, webp.py).    *)
(* websafe(processors) and webp(processors) keep the list they were given  *)
(* in the closure of spec; every call of spec stores a list in its         *)
(* context. Lists are objects: a_heap holds the content of each, contexts  *)
(* and the closure hold ids. List 1 is the configured list.                *)

Configured == 1

\* spec = websafe(processors, extensions) or spec = webp(processors)
AliasInit ==
    /\ a_spec \in { [kind |-> "websafe", extensions |-> x] : x \in ExtensionsArgs }
                     \cup { [kind |-> "webp", extensions |-> NoExtensions] }
    /\ \E processors \in FormatLists :
          /\ a_heap = <<processors>>
          /\ a_original = processors
    /\ a_contexts = <<>>
    /\ a_left = MaxRequests
    /\ GeometryIdle
    /\ ChainIdle
    /\ SaveIdle
    /\ BackendIdle
    /\ FormatIdle
    /\ ThumbnailIdle
    /\ VerifyIdle

\* whether spec stores the configured list itself: "context.processors =
\* processors" of websafe; every other branch builds a new list
stores_configured(spec, extension) ==
    /\ spec.kind = "websafe"
    /\ lower(extension) \in accepted_extensions(spec.extensions)

\* spec(fieldfile, context) for a new context with the given extension
alias_apply ==
    /\ a_left > 0
    /\ a_left' = a_left - 1
    /\ \E e \in FileExtensions :
          LET given == Context(Centre, e, <<>>, EmptyDict)
              out == IF a_spec.kind = "websafe"
                     THEN websafe(a_heap[Configured], a_spec.extensions, given)
                     ELSE webp(a_heap[Configured], given)
              shared == stores_configured(a_spec, e)
          IN  /\ a_heap' = IF shared THEN a_heap ELSE Append(a_heap, out.processors)
              /\ a_contexts' = Append(a_contexts,
                     [given |-> e,
                      extension |-> out.extension,
                      processors |-> IF shared THEN Configured ELSE Len(a_heap) + 1,
                      received |-> out.processors,
                      changed |-> FALSE])
    /\ UNCHANGED <<a_spec, a_original>>
    /\ UNCHANGED <<g_vars, c_vars, s_vars, b_vars, w_vars, t_vars, v_vars>>

\* an in-place change of the list one context holds, like the
\* context.processors.extend(...) of websafe itself
alias_extend ==
    /\ a_left > 0
    /\ a_left' = a_left - 1
    /\ \E i \in 1 .. Len(a_contexts) :
          /\ a_heap' = [a_heap EXCEPT ![a_contexts[i].processors] =
                           @ \o <<Part("autorotate", <<>>)>>]
          /\ a_contexts' = [a_contexts EXCEPT ![i].changed = TRUE]
    /\ UNCHANGED <<a_spec, a_original>>
    /\ UNCHANGED <<g_vars, c_vars, s_vars, b_vars, w_vars, t_vars, v_vars>>

AliasNext ==
    \/ alias_apply
    \/ alias_extend

SpecAlias == AliasInit /\ [][AliasNext]_vars

-----------------------------------------------------------------------------
(* Claims about the crop geometry, under SpecCrop *)

Abs(x) == IF x < 0 THEN -x ELSE x

W == image_size[1]

H == image_size[2]

\* W/H >= tw/th: the source is relatively wider than the target
SourceWider == W * size[2] >= size[1] * H

PpoiX(n, d) == ppoi[1][1] * d = n * ppoi[1][2]

PpoiY(n, d) == ppoi[2][1] * d = n * ppoi[2][2]

\* C1: the box calculate_crop_box returns lies inside the image:
\* 0 <= left, 0 <= top, left + width <= W, top + height <= H.
C1_Containment ==
    g_backend = "pillow" =>
        /\ 0 <= g_box.left
        /\ 0 <= g_box.top
        /\ g_box.left + g_box.width <= W
        /\ g_box.top + g_box.height <= H

\* a box that the upper clamp moved back against the right or the bottom edge
C1_Witness ==
    /\ g_backend = "pillow"
    /\ \/ g_box.left > 0 /\ g_box.left + g_box.width = W /\ PpoiX(1, 1)
       \/ g_box.top > 0 /\ g_box.top + g_box.height = H /\ PpoiY(1, 1)

\* C2: the box has the target aspect ratio within one pixel: in the wider
\* case height = H and |width - H*tw/th| < 1, otherwise width = W and
\* |height - W*th/tw| < 1.
C2_AspectWithinOnePixel ==
    g_backend = "pillow" =>
        IF SourceWider
        THEN /\ g_box.height = H
             /\ Abs(g_box.width * size[2] - H * size[1]) < size[2]
        ELSE /\ g_box.width = W
             /\ Abs(g_box.height * size[1] - W * size[2]) < size[1]

\* a box whose width had to be rounded (H*tw/th is no integer), and one whose
\* height had to be
C2_Witness ==
    /\ g_backend = "pillow"
    /\ \/ SourceWider /\ (H * size[1]) % size[2] # 0 /\ g_box.width > 0
       \/ ~SourceWider /\ (W * size[2]) % size[1] # 0 /\ g_box.height < H

\* C3: edge clamping: px = 0 gives left = 0, py = 0 gives top = 0,
\* px = 1 gives left + width = W, py = 1 gives top + height = H.
C3_EdgeClamping ==
    g_backend = "pillow" =>
        /\ PpoiX(0, 1) => g_box.left = 0
        /\ PpoiY(0, 1) => g_box.top = 0
        /\ PpoiX(1, 1) => g_box.left + g_box.width = W
        /\ PpoiY(1, 1) => g_box.top + g_box.height = H

\* a point of interest in a corner, with a box narrower than the image
C3_Witness ==
    /\ g_backend = "pillow"
    /\ PpoiX(0, 1) /\ PpoiY(1, 1)
    /\ g_box.width < W
    /\ g_box.width > 1

\* The reference geometry of the specification text, in each of its readings:
\* round() to a nearest integer (either neighbour of an exact half), cw/2 as
\* the half rounded down or up.
Clamp(x, lo, hi) == Min(Max(x, lo), hi)

Halves(n) == {n \div 2, (n + 1) \div 2}

ReferenceBoxes ==
    IF SourceWider
    THEN UNION { { CropBox(Clamp(centerX - half, 0, W - cw), 0, cw, H) :
                     centerX \in RoundAny(W * ppoi[1][1], ppoi[1][2]),
                     half \in Halves(cw) } :
                 cw \in RoundAny(size[1] * H, size[2]) }
    ELSE UNION { { CropBox(0, Clamp(centerY - half, 0, H - ch), W, ch) :
                     centerY \in RoundAny(H * ppoi[2][1], ppoi[2][2]),
                     half \in Halves(ch) } :
                 ch \in RoundAny(W * size[2], size[1]) }

\* C4 as stated: the box equals the reference geometry with the centre
\* round(W*px), round(H*py).
C4_Original ==
    g_backend = "pillow" => g_box \in ReferenceBoxes

\* The geometry with the centre truncated: centerX = floor(W*px),
\* centerY = floor(H*py), cw and ch rounded half up, the half of cw and ch
\* rounded down.
TruncatedReferenceBox ==
    LET centerX == (W * ppoi[1][1]) \div ppoi[1][2]
        centerY == (H * ppoi[2][1]) \div ppoi[2][2]
        cw == RoundHalfUp(size[1] * H, size[2])
        ch == RoundHalfUp(W * size[2], size[1])
    IN  IF SourceWider
        THEN CropBox(Clamp(centerX - (cw \div 2), 0, W - cw), 0, cw, H)
        ELSE CropBox(0, Clamp(centerY - (ch \div 2), 0, H - ch), W, ch)

\* C4 (amended): calculate_crop_box equals the reference geometry with the
\* centre truncated, centerX = floor(W*px) and centerY = floor(H*py), and the
\* half of cw and ch rounded down; 400x300 to 300x300 at (0.2, 0.8) gives
\* (0, 0, 300, 300) and 800x600 to 300x225 at (0.5, 0.5) gives (0, 0, 800, 600).
C4_TruncatedReference ==
    g_backend = "pillow" =>
        /\ g_box = TruncatedReferenceBox
        /\ (image_size = <<400, 300>> /\ size = <<300, 300>> /\ PpoiX(1, 5) /\ PpoiY(4, 5))
              => g_box = CropBox(0, 0, 300, 300)
        /\ (image_size = <<800, 600>> /\ size = <<300, 225>> /\ PpoiX(1, 2) /\ PpoiY(1, 2))
              => g_box = CropBox(0, 0, 800, 600)

\* an input on which truncating and rounding the centre give different boxes
C4_Witness ==
    /\ g_backend = "pillow"
    /\ g_box \notin ReferenceBoxes
    /\ g_box = TruncatedReferenceBox
    /\ g_box.width > 1 /\ g_box.height > 1

\* C5 as stated: the image the crop processor returns has exactly the target
\* size, on the Pillow and on the vips engine.
C5_Original ==
    (g_backend \in {"pillow", "vips"} /\ g_result.ok) => g_result.size = size


-----------------------------------------------------------------------------
(* Claims about the chain builder and the composed handler, under SpecChain *)

\* the processors a specification list declares, in declared order, with
\* "default" standing for the five processors it composes
Declared(part) ==
    IF part.name = "default"
    THEN <<"preserve_icc_profile", "process_gif", "process_png", "process_jpeg",
           "autorotate">>
    ELSE <<part.name>>

RECURSIVE DeclaredOrder(_)
DeclaredOrder(processors) ==
    IF processors = <<>> THEN <<>>
    ELSE Declared(Head(processors)) \o DeclaredOrder(Tail(processors))

Reverse(seq) == [i \in 1 .. Len(seq) |-> seq[Len(seq) + 1 - i]]

NamesOf(seq) == [i \in 1 .. Len(seq) |-> seq[i].name]

StepsOf(seq) == [i \in 1 .. Len(seq) |-> seq[i].step]

IsEnter(e) == e.step = "enter"

IsReturn(e) == e.step = "return"

BasePositions == {i \in 1 .. Len(log) : log[i].step = "base"}

\* C6: onion ordering: the handler built from [p1, ..., pn] runs p1's
\* pre-downstream logic, then p2's, ..., then the base handler, then pn's
\* post-downstream logic, ..., then p1's.
C6_OnionOrdering ==
    c_pc = "done" =>
        /\ NamesOf(SelectSeq(log, IsEnter)) = DeclaredOrder(context.processors)
        /\ NamesOf(SelectSeq(log, IsReturn)) = Reverse(DeclaredOrder(context.processors))
        /\ Cardinality(BasePositions) = 1
        /\ \A b \in BasePositions :
              /\ \A i \in 1 .. Len(log) : IsEnter(log[i]) => i < b
              /\ \A i \in 1 .. Len(log) : IsReturn(log[i]) => i > b
              \* on the way in the processors act outermost first, on the way
              \* out innermost first
              /\ \A i, j \in 1 .. Len(log) :
                    /\ (i < j /\ j < b) => log[i].depth <= log[j].depth
                    /\ (b < i /\ i < j) => log[i].depth >= log[j].depth

\* the run of ["force_jpeg", "force_webp"]: p1-pre, p2 (whole), p1-post
C6_Witness ==
    /\ c_pc = "done"
    /\ NamesOf(context.processors) = <<"force_jpeg", "force_webp">>
    /\ StepsOf(log) = <<"enter", "format", "call", "enter", "format", "call", "base",
                        "quality_95", "return", "quality_95", "return">>
    /\ NamesOf(log) = <<"force_jpeg", "force_jpeg", "force_jpeg", "force_webp",
                        "force_webp", "force_webp", "base", "force_webp", "force_webp",
                        "force_jpeg", "force_jpeg">>

\* C7 as stated: the image transformations are applied in the declared
\* left-to-right order: of a thumbnail and a crop in one list, the one
\* declared first transforms the image first.
C7_Original ==
    \A i, j \in 1 .. Len(log) :
        (log[i].step = "resize" /\ log[j].step = "resize"
           /\ log[i].name # log[j].name /\ log[i].depth < log[j].depth)
            => i < j

\* C7 (amended): thumbnail and crop transform the image their downstream
\* handler returns, so their transformations are applied in the reverse of
\* the declared order: for [("thumbnail", a), ("crop", b)] the crop-and-resize
\* is applied before the thumbnail resize, and for [("crop", b),
\* ("thumbnail", a)] the thumbnail resize before the crop.
C7_ReverseDeclaredOrder ==
    /\ \A i, j \in 1 .. Len(log) :
          (log[i].step = "resize" /\ log[j].step = "resize"
             /\ log[i].depth < log[j].depth) => j < i
    /\ \A i \in 1 .. Len(log) :
          log[i].step = "resize" => \E b \in BasePositions : b < i

\* a finished run of [("thumbnail", a), ("crop", b)] in which both resized
C7_Witness ==
    /\ c_pc = "done"
    /\ NamesOf(context.processors) = <<"thumbnail", "crop">>
    /\ \E i, j \in 1 .. Len(log) :
          /\ log[i].name = "crop" /\ log[i].step = "resize"
          /\ log[j].name = "thumbnail" /\ log[j].step = "resize"
          /\ i < j

\* C8: every built-in processor calls its downstream handler exactly once per
\* invocation, in every branch, so the base handler is invoked exactly once
\* per invocation of the composed handler.
C8_DownstreamExactlyOnce ==
    /\ base_calls <= 1
    /\ \A i \in 1 .. Len(calls) : calls[i] <= 1
    /\ c_pc \in {"done", "raised"} =>
          /\ base_calls = 1
          /\ \A i \in 1 .. Len(calls) : calls[i] = 1

\* a finished run of a chain that took process_gif's GIF branch and, further
\* in, process_jpeg's non-JPEG branch
C8_Witness ==
    /\ c_pc = "done"
    /\ base_calls = 1
    /\ context.save_kwargs["format"] = "GIF"
    /\ \E i \in 1 .. Len(log) : log[i].name = "process_gif" /\ log[i].step = "putpalette"
    /\ \E i \in 1 .. Len(composed) : composed[i].name = "process_jpeg" /\ calls[i] = 1

\* the registry build_handler was given (PILLOW_PROCESSORS when none was)
GivenRegistry == IF registry.given THEN registry.map ELSE PILLOW_PROCESSORS

MissingNames ==
    {context.processors[i].name : i \in 1 .. Len(context.processors)}
        \ DOMAIN GivenRegistry

\* C9 as stated: build_handler resolves every entry only against the registry
\* it was given, an empty one included: an entry whose name is not in it makes
\* build_handler fail with a LookupError naming it, before any processor runs.
C9_Original ==
    (c_pc # "init" /\ MissingNames # {}) =>
        /\ c_pc = "failed"
        /\ error.type = "KeyError"
        /\ error.name \in MissingNames
        /\ log = <<>>

\* C10: while a composed handler runs, the context's ppoi, extension and
\* processors are never written; processors write save_kwargs only, under the
\* keys format, quality, progressive, transparency and icc_profile.
C10_ContextFrame ==
    [][ /\ context'.ppoi = context.ppoi
        /\ context'.extension = context.extension
        /\ context'.processors = context.processors
        /\ DOMAIN context'.save_kwargs \subseteq
              DOMAIN context.save_kwargs
                \cup {"format", "quality", "progressive", "transparency", "icc_profile"}
        /\ DOMAIN context.save_kwargs \subseteq DOMAIN context'.save_kwargs ]_vars

\* a finished run in which processors wrote format, quality, progressive and
\* icc_profile: the format became JPEG while the extension stayed
C10_Witness ==
    /\ c_pc = "done"
    /\ {"format", "quality", "progressive", "icc_profile"}
          \subseteq DOMAIN context.save_kwargs
    /\ context.save_kwargs["format"] = "JPEG"
    /\ context.extension # ".jpg"

-----------------------------------------------------------------------------
(* Claims about PillowBackend.save, under SpecSave and SpecSaveThreads *)

Idle(t) == s_pc[t] = "idle"

AllIdle == \A t \in DOMAIN s_pc : Idle(t)

Finished(t) == Idle(t) /\ s_outcome[t] # "none"

Retried(t) == Len(s_attempts[t]) = 2

\* C11: when the save calls run one at a time, then after each of them,
\* however it ended, ImageFile.MAXBLOCK has the value it had before the
\* first call.
C11_MaxblockRestored ==
    AllIdle => MAXBLOCK = entry_MAXBLOCK

\* all calls of the sequence are over, and the last one failed in its retry
C11_Witness ==
    /\ DOMAIN s_pc = {"t1"}
    /\ Finished("t1")
    /\ s_left["t1"] = 0
    /\ Retried("t1")
    /\ s_outcome["t1"] = "OSError"
    /\ MAXBLOCK = entry_MAXBLOCK

\* C12: a save call makes at most two encoder calls; the second is made
\* exactly when the first raised OSError, and it runs under 16 times the
\* MAXBLOCK read on entry; the call ends with the outcome of its last
\* encoder call, so a failed retry and a first failure other than OSError
\* propagate.
C12_OneRetry ==
    \A t \in DOMAIN s_pc :
        /\ Len(s_attempts[t]) <= 2
        /\ Retried(t) =>
              /\ s_attempts[t][1].raised = "OSError"
              /\ s_attempts[t][2].maxblock = 16 * original[t]
        /\ Finished(t) =>
              /\ Len(s_attempts[t]) >= 1
              /\ s_attempts[t][1].raised = "OSError" => Retried(t)
              /\ LET last == s_attempts[t][Len(s_attempts[t])]
                 IN  s_outcome[t] = IF last.raised = "" THEN "returned" ELSE last.raised

\* a call whose first encoder call raised OSError and whose retry, under 16
\* times the MAXBLOCK read on entry, raised OSError as well
C12_Witness ==
    /\ DOMAIN s_pc = {"t1"}
    /\ Finished("t1")
    /\ Retried("t1")
    /\ s_attempts["t1"][1].maxblock = entry_MAXBLOCK
    /\ s_attempts["t1"][2].raised = "OSError"
    /\ s_attempts["t1"][2].maxblock = 16 * entry_MAXBLOCK
    /\ s_outcome["t1"] = "OSError"

\* C13 as stated: once concurrent save calls of which one retried have all
\* returned, MAXBLOCK has the value it had before they started, and no
\* call's first encoder call ran under an enlarged MAXBLOCK.
C13_Original ==
    /\ \A t \in DOMAIN s_pc :
          Len(s_attempts[t]) >= 1 => s_attempts[t][1].maxblock = entry_MAXBLOCK
    /\ (AllIdle /\ \E t \in DOMAIN s_pc : Finished(t) /\ Retried(t))
          => MAXBLOCK = entry_MAXBLOCK

\* C14 as stated: when save returns without raising, the sink holds exactly
\* one complete encoding and nothing else.
C14_Original ==
    \A t \in DOMAIN s_pc :
        (Finished(t) /\ s_outcome[t] = "returned")
            => \E k \in 1 .. 2 : fp[t] = <<Chunk(k, TRUE)>>

-----------------------------------------------------------------------------
(* Claims about the backend singleton, under SpecBackend and               *)
(* SpecBackendThreads                                                      *)

Gets == {i \in 1 .. Len(b_events) : b_events[i].op = "get_backend"}

Resets == {i \in 1 .. Len(b_events) : b_events[i].op = "reset_backend"}

Succeeded(i) == b_events[i].result.kind = "instance"

NoneBetween(ops, i, j) == \A k \in ops : ~(i < k /\ k < j)

\* chars is word, which is in lower case, up to the case of its letters
Folds(chars, word) ==
    /\ Len(chars) = Len(word)
    /\ \A i \in 1 .. Len(word) :
          \/ chars[i] = word[i]
          \/ \E k \in 1 .. Len(LowerCase) :
                LowerCase[k] = word[i] /\ UpperCase[k] = chars[i]

\* C15: once a get_backend call has returned an instance, every later call
\* returns that same instance as long as reset_backend has not been called,
\* whatever the setting has been changed to meanwhile.
C15_Singleton ==
    \A i, j \in Gets :
        (i < j /\ Succeeded(i) /\ NoneBetween(Resets, i, j))
            => b_events[j].result = b_events[i].result

\* two calls without a reset between them, the second under a setting that
\* names the other backend, returned the same instance
C15_Witness ==
    \E i, j \in Gets :
        /\ i < j
        /\ Succeeded(i)
        /\ NoneBetween(Resets, i, j)
        /\ b_events[i].result.name = pillow
        /\ Folds(b_events[j].setting, vips)
        /\ b_events[j].result = b_events[i].result

\* C16: the first get_backend call after a reset_backend resolves the
\* backend anew: when it returns, it returns an instance that no call before
\* the reset returned and whose name is the setting of that moment in lower
\* case.
C16_FreshAfterReset ==
    \A i \in Resets : \A j \in Gets :
        (i < j /\ NoneBetween(Gets, i, j) /\ Succeeded(j)) =>
            /\ ~b_events[j].cached
            /\ \A k \in Gets : k < i => b_events[k].result.id # b_events[j].result.id
            /\ Folds(b_events[j].setting, b_events[j].result.name)

\* a pillow instance was returned, the setting changed to VIPS, the backend
\* was reset, and the next call returned a different instance named vips
C16_Witness ==
    \E k, j \in Gets : \E i \in Resets :
        /\ k < i /\ i < j
        /\ NoneBetween(Gets, i, j)
        /\ Succeeded(k) /\ Succeeded(j)
        /\ b_events[k].result.name = pillow
        /\ b_events[j].result.name = vips
        /\ b_events[j].setting = <<"V", "I", "P", "S">>
        /\ b_events[j].result.id # b_events[k].result.id

\* what a get_backend call that finds nothing cached must do under a setting
Selected(setting, res) ==
    IF Folds(setting, pillow)
    THEN res.kind = "instance" /\ res.name = pillow
    ELSE IF Folds(setting, vips)
         THEN IF pyvips_importable
              THEN res.kind = "instance" /\ res.name = vips
              ELSE res.kind = "ImportError"
         ELSE res.kind = "ValueError"

\* C17: the setting is compared without regard to case; a setting that is
\* neither pillow nor vips raises ValueError, vips without an importable
\* pyvips raises ImportError; a call that raised caches nothing, so the next
\* call resolves again: it fails the same way under the same setting and
\* succeeds under a valid one.
C17_SelectionErrors ==
    /\ \A j \in Gets :
          ~b_events[j].cached => Selected(b_events[j].setting, b_events[j].result)
    /\ \A i, j \in Gets :
          (i < j /\ NoneBetween(Gets, i, j) /\ ~Succeeded(i)) =>
              /\ ~b_events[j].cached
              /\ b_events[j].setting = b_events[i].setting
                    => b_events[j].result = b_events[i].result
    /\ (b_events # <<>> /\ b_events[Len(b_events)].op = "get_backend"
           /\ ~Succeeded(Len(b_events)) /\ \A t \in DOMAIN b_pc : b_pc[t] = "idle")
          => backend_instance = None

\* vips without pyvips raised ImportError twice in a row, the setting was
\* changed to PILLOW, and the next call returned a pillow instance
C17_Witness ==
    /\ Len(b_events) = 3
    /\ b_events[1].result.kind = "ImportError"
    /\ b_events[2].result.kind = "ImportError"
    /\ b_events[2].setting = b_events[1].setting
    /\ b_events[3].setting = <<"P", "I", "L", "L", "O", "W">>
    /\ b_events[3].result = Instance(1, pillow)

\* C18 as stated: as long as reset_backend has not been called, threads
\* calling get_backend at the same time all receive the same instance and
\* only one instance is ever created.
C18_Original ==
    Resets = {} =>
        /\ created <= 1
        /\ \A i, j \in Gets :
              (Succeeded(i) /\ Succeeded(j)) => b_events[i].result = b_events[j].result

-----------------------------------------------------------------------------
(* Claims about the format override specs, under SpecFormat *)

\* the extensions websafe accepts by default, in every spelling of the model
AcceptedByDefault ==
    {e \in FileExtensions :
        \E word \in {dot_png, dot_gif, dot_jpg, dot_jpeg} : Folds(e, word)}

force_jpeg_then(processors) == <<Part("force_jpeg", <<>>)>> \o processors

\* C19: after websafe(processors) has been applied, a context whose extension
\* is one of .png, .gif, .jpg, .jpeg in any case has kept its extension and
\* has exactly the given processors; any other context has the extension
\* .jpg and the processors force_jpeg followed by the given ones: .bmp with
\* ["default"] gives .jpg and ["force_jpeg", "default"].
C19_Websafe ==
    (w_pc = "websafe" /\ w_extensions = NoExtensions) =>
        /\ IF w_given.extension \in AcceptedByDefault
           THEN /\ w_context.extension = w_given.extension
                /\ w_context.processors = w_processors
           ELSE /\ w_context.extension = dot_jpg
                /\ w_context.processors = force_jpeg_then(w_processors)
        /\ (w_given.extension = dot_bmp /\ w_processors = <<Part("default", <<>>)>>) =>
              /\ w_context.extension = dot_jpg
              /\ w_context.processors = <<Part("force_jpeg", <<>>), Part("default", <<>>)>>
        /\ w_context.ppoi = w_given.ppoi
        /\ w_context.save_kwargs = w_given.save_kwargs

\* websafe(["default"]) has been applied to a context with extension .bmp
C19_Witness ==
    /\ w_pc = "websafe"
    /\ w_extensions = NoExtensions
    /\ w_given.extension = dot_bmp
    /\ w_processors = <<Part("default", <<>>)>>
    /\ w_context.extension = dot_jpg
    /\ w_context.processors = <<Part("force_jpeg", <<>>), Part("default", <<>>)>>

\* C20: after webp(processors) has been applied to a context, whatever its
\* extension was, .webp included, the extension is .webp and the processors
\* are force_webp followed by the given ones.
C20_Webp ==
    w_pc = "webp" =>
        /\ w_context.extension = dot_webp
        /\ w_context.processors = <<Part("force_webp", <<>>)>> \o w_processors
        /\ w_context.ppoi = w_given.ppoi
        /\ w_context.save_kwargs = w_given.save_kwargs

\* webp has been applied to a context whose extension was .webp already
C20_Witness ==
    /\ w_pc = "webp"
    /\ w_given.extension = dot_webp
    /\ w_processors # <<>>
    /\ w_context.extension = dot_webp
    /\ w_context.processors[1] = Part("force_webp", <<>>)
    /\ Len(w_context.processors) = Len(w_processors) + 1

-----------------------------------------------------------------------------
(* Further claims about the composed handler, under SpecChain *)

StartsWith(name) ==
    /\ context.processors # <<>>
    /\ context.processors[1].name = name

Declares(name) ==
    \E i \in 1 .. Len(context.processors) : context.processors[i].name = name

\* no entry behind the first one is force_jpeg or force_webp
NoLaterFormat ==
    \A i \in 2 .. Len(context.processors) :
        context.processors[i].name \notin {"force_jpeg", "force_webp"}

Started == c_pc \in {"calling", "running", "done", "raised"}

-----------------------------------------------------------------------------
(* Further claims about the crop geometry, under SpecCrop *)

\* C28: the rectangle the vips crop processor computes inline and passes to
\* image.crop is the CropBox calculate_crop_box returns for the same image
\* size, target size and ppoi, which is the one the Pillow processor uses.
C28_CropParity ==
    /\ g_backend = "vips" =>
          g_box = calculate_crop_box(W, H, size[1], size[2], ppoi)
    /\ g_backend = "pillow" =>
          g_box = vips_crop_box(W, H, size[1], size[2], ppoi)

\* the vips processor has computed a rectangle that is narrower than the
\* image, of a width that was rounded up, and clamped to the right edge
C28_Witness ==
    /\ g_backend = "vips"
    /\ SourceWider
    /\ g_box.width < W
    /\ g_box.width * size[2] > size[1] * H
    /\ g_box.left > 0
    /\ g_box.left + g_box.width = W
    /\ g_box = calculate_crop_box(W, H, size[1], size[2], ppoi)

\* the backend whose registry the handler is built from: the vips backend
\* passes VIPS_PROCESSORS, every other caller ends up with PILLOW_PROCESSORS
RegistryEngine == IF registry = Registry(VIPS_PROCESSORS) THEN "vips" ELSE "pillow"

DefaultOrder ==
    <<"preserve_icc_profile", "process_gif", "process_png", "process_jpeg",
      "autorotate">>

\* the number of closures the entries before entry k of the list stand for
RECURSIVE Offset(_, _)
Offset(processors, k) ==
    IF k = 1
    THEN 0
    ELSE Offset(processors, k - 1)
         + (IF processors[k - 1].name = "default" THEN Len(DefaultOrder) ELSE 1)

\* the name of what entry k of the list calls first
FirstOf(processors, k) ==
    IF k > Len(processors) THEN "base"
    ELSE IF processors[k].name = "default" THEN DefaultOrder[1]
    ELSE processors[k].name

\* the name of what the closure at depth d calls
Downstream(d) == IF d = Len(composed) THEN "base" ELSE composed[d + 1].name

\* C25: on each backend a "default" entry stands for preserve_icc_profile,
\* process_gif, process_png, process_jpeg and autorotate, called in that
\* order and followed by the downstream handler, and each of the five is the
\* processor of the backend whose registry "default" itself came from.
C25_DefaultOrder ==
    c_pc \notin {"init", "failed"} =>
        /\ \A k \in 1 .. Len(context.processors) :
              context.processors[k].name = "default" =>
                 LET o == Offset(context.processors, k)
                 IN  /\ o + Len(DefaultOrder) <= Len(composed)
                     /\ \A i \in 1 .. Len(DefaultOrder) :
                           /\ composed[o + i].name = DefaultOrder[i]
                           /\ composed[o + i].impl = RegistryEngine
                     /\ Downstream(o + Len(DefaultOrder))
                           = FirstOf(context.processors, k + 1)
        \* what is entered at depth d is closure d of the chain, called by
        \* closure d - 1
        /\ \A j \in 1 .. Len(log) :
              /\ log[j].step = "enter" =>
                    /\ log[j].name = composed[log[j].depth].name
                    /\ log[j].depth > 1 =>
                          log[j - 1] = Logged(log[j].depth - 1,
                                              composed[log[j].depth - 1].name, "call")
              /\ log[j].step = "base" => log[j].depth = Len(composed) + 1

\* a finished vips run of ["default", ("thumbnail", ...)]: the five
\* processors were entered in order, then thumbnail, then the base handler
C25_Witness ==
    /\ c_pc = "done"
    /\ registry = Registry(VIPS_PROCESSORS)
    /\ Len(context.processors) = 2
    /\ context.processors[1].name = "default"
    /\ context.processors[2].name = "thumbnail"
    /\ Len(composed) = 6
    /\ \A i \in 1 .. 5 : composed[i] = Closure(Factory("vips", DefaultOrder[i]), <<>>)
    /\ \E j \in 1 .. Len(log) : log[j] = Logged(6, "thumbnail", "enter")
    /\ base_calls = 1

\* process_jpeg has just called its downstream handler
JpegCalled ==
    /\ c_pc = "calling"
    /\ stack # <<>>
    /\ Top.closure.name = "process_jpeg"

\* the image process_jpeg was entered with: its caller's, or the run's
JpegEntered == IF Len(stack) = 1 THEN image ELSE stack[Len(stack) - 1].image

\* a three-channel colour image: mode "RGB" for Pillow, three bands for vips
ThreeChannel(c, im) ==
    IF c.impl = "pillow"
    THEN im.mode = "RGB"
    ELSE im.mode \in {"RGB", "P"}

\* C26 as stated: when process_jpeg calls its downstream handler, on either
\* engine: if the format is JPEG the context carries quality 90 and
\* progressive, and the image passed is a three-channel colour image; if the
\* format is anything else, the image passed is the one it was entered with
\* and it took no step between being entered and calling.
C26_Original ==
    JpegCalled =>
        IF context.save_kwargs["format"] = "JPEG"
        THEN /\ "quality" \in DOMAIN context.save_kwargs
             /\ context.save_kwargs["quality"] = 90
             /\ "progressive" \in DOMAIN context.save_kwargs
             /\ context.save_kwargs["progressive"] = TRUE
             /\ ThreeChannel(Top.closure, Top.image)
        ELSE /\ Top.image = JpegEntered
             /\ Len(log) >= 2
             /\ log[Len(log) - 1] = Logged(Len(stack), "process_jpeg", "enter")
             /\ log[Len(log)] = Logged(Len(stack), "process_jpeg", "call")

-----------------------------------------------------------------------------
(* Claims about the thumbnail processors, under SpecThumbnail *)

SrcW == t_image_size[1]

SrcH == t_image_size[2]

MaxW == t_size[1]

MaxH == t_size[2]

\* a thumbnail processor has computed the size it asks its engine for
Requested == t_backend # "none"

\* the source already fits the box: f = 1
SourceFits == SrcW <= MaxW /\ SrcH <= MaxH

\* f = min(1, max_w / src_w, max_h / src_h) as an exact ratio
ScaleFactor ==
    IF SourceFits THEN Ratio(1, 1)
    ELSE IF MaxW * SrcH <= MaxH * SrcW THEN Ratio(MaxW, SrcW)
    ELSE Ratio(MaxH, SrcH)

\* floor(f * c) of the exact product, for a factor f <= 1
FloorOfProduct(f, c) ==
    CHOOSE k \in 0 .. c : k * f[2] <= f[1] * c /\ f[1] * c < (k + 1) * f[2]

\* the integers nearest to the exact product f * c
NearestToProduct(f, c) ==
    { k \in 0 .. c : /\ 2 * k * f[2] - 2 * f[1] * c <= f[2]
                     /\ 2 * f[1] * c - 2 * k * f[2] <= f[2] }

\* sources for which every double product truncates to the exact floor
ExactProducts == (SrcW <= 21 /\ SrcH <= 21) \/ t_image_size = <<800, 600>>

\* C22: thumbnail never upscales and fits the box: on both engines the size
\* it requests is at most the source's and at most the maximum, in width and
\* in height, and so is the size of the image the engine returns.
C22_NeverUpscales ==
    Requested =>
        /\ t_new[1] <= SrcW
        /\ t_new[2] <= SrcH
        /\ t_new[1] <= MaxW
        /\ t_new[2] <= MaxH
        /\ t_result.ok =>
              /\ t_result.size[1] <= Min(SrcW, MaxW)
              /\ t_result.size[2] <= Min(SrcH, MaxH)

\* the vips processor has scaled a source down that exceeded the box in both
\* directions: the width meets its bound, the height stays below its own
C22_Witness ==
    /\ t_backend = "vips"
    /\ SrcW > MaxW
    /\ SrcH > MaxH
    /\ t_new[1] = MaxW
    /\ t_new[2] >= 1
    /\ t_new[2] < MaxH
    /\ t_result.ok

\* C23 as stated: for every source size and every positive maximum, the
\* requested size meets at least one bound exactly.
C23_Original ==
    Requested => (t_new[1] = MaxW \/ t_new[2] = MaxH)

\* C23, amended: a source that fits the box keeps its size; otherwise the
\* side whose ratio is the smaller one meets its bound, exactly where the
\* double product is exact and at most one below it where it falls short.
C23_BoundOrSource ==
    Requested =>
        IF SourceFits
        THEN t_new = t_image_size
        ELSE /\ MaxW * SrcH <= MaxH * SrcW => t_new[1] \in {MaxW - 1, MaxW}
             /\ MaxH * SrcW <= MaxW * SrcH => t_new[2] \in {MaxH - 1, MaxH}
             /\ ExactProducts => (t_new[1] = MaxW \/ t_new[2] = MaxH)

\* a source smaller than the box was left at its size, below both bounds
C23_Witness ==
    /\ Requested
    /\ SrcW < MaxW
    /\ SrcH < MaxH
    /\ t_new = t_image_size
    /\ t_result = Returned(SrcW, SrcH)

\* C24 as stated: the requested size is (round(f * src_w), round(f * src_h)),
\* and the 800x600 source with (300, 225) gives 300x225.
C24_Original ==
    Requested =>
        /\ t_new[1] \in NearestToProduct(ScaleFactor, SrcW)
        /\ t_new[2] \in NearestToProduct(ScaleFactor, SrcH)
        /\ (t_image_size = <<800, 600>> /\ t_size = <<300, 225>>) => t_new = <<300, 225>>

\* C24, amended: the requested size is (int(f * src_w), int(f * src_h)), the
\* products truncated: the floor of the exact product, or one below it where
\* the exact product is an integer that the double product falls short of.
\* The 800x600 source with (300, 225) gives 300x225.
C24_Truncated ==
    Requested =>
        /\ \A i \in 1 .. 2 :
              LET exact == FloorOfProduct(ScaleFactor, t_image_size[i])
              IN  \/ t_new[i] = exact
                  \/ /\ t_new[i] = exact - 1
                     /\ ~ExactProducts
                     /\ exact * ScaleFactor[2] = ScaleFactor[1] * t_image_size[i]
        /\ (t_image_size = <<800, 600>> /\ t_size = <<300, 225>>) => t_new = <<300, 225>>

\* a 5x3 source with (3, 3): f = 3/5 and the height int(1.8) = 1, where
\* rounding gives 2
C24_Witness ==
    /\ Requested
    /\ t_image_size = <<5, 3>>
    /\ t_size = <<3, 3>>
    /\ t_new = <<3, 1>>
    /\ t_new[2] \notin NearestToProduct(ScaleFactor, SrcH)

\* C29 as stated: the crop box calculate_crop_box returns is at least one
\* pixel wide and high, and the size thumbnail requests is at least 1 x 1.
C29_Original ==
    /\ g_box # NoBox => (g_box.width >= 1 /\ g_box.height >= 1)
    /\ Requested => (t_new[1] >= 1 /\ t_new[2] >= 1)

-----------------------------------------------------------------------------
(* Claims about verify_supported, under SpecVerify *)

RangeOf(seq) == {seq[i] : i \in 1 .. Len(seq)}

\* C27 as stated: when verify_supported returns true, on either engine and for
\* every detected format, the small three-channel thumbnail was encoded in at
\* least three different formats, one of them the image's own detected
\* format, and no encoder failed; a failing encode ends the call with the
\* error raised.
C27_Original ==
    /\ v_pc = "returned" =>
          /\ v_thumb.mode = "RGB"
          /\ Cardinality(RangeOf(v_encoded)) >= 3
          /\ v_image.format # NoFormat => v_image.format \in RangeOf(v_encoded)
          /\ RangeOf(v_encoded) \cap v_failing = {}
    /\ v_pc \in {"returned", "raised"} =>
          (v_pc = "raised"
             <=> (v_image.broken
                    \/ RangeOf(verify_targets(v_backend, v_image)) \cap v_failing # {}))

-----------------------------------------------------------------------------
(* Claims about one spec function applied to several contexts, under       *)
(* SpecAlias                                                               *)

\* the list a context with this extension is to receive from the spec
Expected(e) ==
    IF a_spec.kind = "webp"
    THEN <<Part("force_webp", <<>>)>> \o a_original
    ELSE IF \E a \in (IF a_spec.extensions.given /\ a_spec.extensions.value # {}
                      THEN a_spec.extensions.value
                      ELSE {dot_png, dot_gif, dot_jpg, dot_jpeg}) : Folds(e, a)
         THEN a_original
         ELSE <<Part("force_jpeg", <<>>)>> \o a_original

\* C30 as stated: however often one websafe or webp spec is applied, the
\* configured list keeps the content it had at construction; the list a
\* context holds is neither the configured list nor another context's list;
\* and an in-place change of one context's list leaves what every other
\* context holds, and what a later call hands out, as the spec determines it.
C30_Original ==
    a_heap # <<>> =>
        /\ a_heap[Configured] = a_original
        /\ \A i \in 1 .. Len(a_contexts) :
              /\ a_contexts[i].processors # Configured
              /\ \A j \in 1 .. Len(a_contexts) :
                    i # j => a_contexts[i].processors # a_contexts[j].processors
              /\ a_contexts[i].received = Expected(a_contexts[i].given)
              /\ ~a_contexts[i].changed =>
                    a_heap[a_contexts[i].processors] = a_contexts[i].received

=============================================================================
